---------------------------- MODULE Spec2Model ----------------------------
(***************************************************************************)
(* A model of rsfx: the .rsfx container (rsfx-core: format, encode,        *)
(* decode, compress), the converter's delta engine and conversion loop,    *)
(* and the player's playback loop.                                         *)
(*                                                                         *)
(* Files are sequences of bytes (0..255); the byte at file offset o is     *)
(* element o+1 of the sequence.  Integers of the program are modelled by   *)
(* TLA+ integers below 2^31 (the model checker's range), so the upper      *)
(* bytes of u64 fields are always zero in the model.                       *)
(***************************************************************************)
EXTENDS Integers, Sequences, FiniteSets, TLC

(***************************************************************************)
(* Bounds of the model.                                                    *)
(***************************************************************************)
\* most frames written to one container in Spec
MaxFrames == 3
\* most write_audio calls on one writer in Spec
MaxAudioCalls == 1
\* most cells (cols*rows) of a grid handed to compute_delta in SpecDelta
MaxCells == 4
\* most source frames the decoder yields to the converter in SpecPlay
MaxSrcFrames == 3
\* largest --keyframe-interval tried in SpecPlay
MaxKeyframeInterval == 3
\* frames written to a file that is then damaged and read
MaxFileFrames == 2
\* write_audio calls made on one writer
MaxAudioWrites == 2
\* items a sender puts on one connection
MaxMessages == 4

(***************************************************************************)
(* Little-endian integers (to_le_bytes / from_le_bytes).                   *)
(***************************************************************************)
RECURSIVE to_le_bytes(_, _)
to_le_bytes(n, width) ==
    IF width = 0 THEN << >>
    ELSE << n % 256 >> \o to_le_bytes(n \div 256, width - 1)

RECURSIVE from_le_bytes(_)
from_le_bytes(b) ==
    IF b = << >> THEN 0
    ELSE Head(b) + 256 * from_le_bytes(Tail(b))

\* the half-open byte range [from, to) of buf (Rust's buf[from..to])
Slice(buf, from, to) == SubSeq(buf, from + 1, to)

Zeros(n) == [i \in 1..n |-> 0]

\* the largest element of a non-empty set of integers
Max(S) == CHOOSE m \in S : \A n \in S : n <= m

\* `as u16`
AsU16(n) == n % 65536

(***************************************************************************)
(* format.rs: Cell, DeltaCell, FrameType, RsfxHeader, FrameIndexEntry.     *)
(***************************************************************************)
CELL_SIZE == 6
DELTA_CELL_SIZE == 10
HEADER_SIZE == 64
INDEX_ENTRY_SIZE == 16
VERSION == 1
\* b"RSFX"
MAGIC == << 82, 83, 70, 88 >>

Cell(a, b, c, d, e, f) ==
    [bg_r |-> a, bg_g |-> b, bg_b |-> c, fg_r |-> d, fg_g |-> e, fg_b |-> f]

Cell_to_bytes(c) == << c.bg_r, c.bg_g, c.bg_b, c.fg_r, c.fg_g, c.fg_b >>

Cell_from_bytes(b) == Cell(b[1], b[2], b[3], b[4], b[5], b[6])

DeltaCell(x, y, cell) == [x |-> x, y |-> y, cell |-> cell]

\* mutant: y serialized before x
DeltaCell_to_bytes_yx(d) ==
    to_le_bytes(d.y, 2) \o to_le_bytes(d.x, 2) \o Cell_to_bytes(d.cell)

DeltaCell_to_bytes(d) ==
    to_le_bytes(d.x, 2) \o to_le_bytes(d.y, 2) \o Cell_to_bytes(d.cell)

DeltaCell_from_bytes(b) ==
    DeltaCell(from_le_bytes(Slice(b, 0, 2)), from_le_bytes(Slice(b, 2, 4)),
              Cell_from_bytes(Slice(b, 4, 10)))

\* FrameType as u8
FrameType_as_u8(t) == IF t = "Keyframe" THEN 0 ELSE 1

FrameType_from_u8(v) == IF v = 0 THEN "Keyframe" ELSE "Delta"

\* mutant: fps_den written before fps_num
RsfxHeader_to_bytes_fps_exchanged(h) ==
    MAGIC \o to_le_bytes(VERSION, 2)
          \o to_le_bytes(h.cols, 2)
          \o to_le_bytes(h.rows, 2)
          \o to_le_bytes(h.fps_den, 2)
          \o to_le_bytes(h.fps_num, 2)
          \o to_le_bytes(h.frame_count, 4)
          \o to_le_bytes(h.keyframe_interval, 2)
          \o to_le_bytes(h.audio_sample_rate, 4)
          \o to_le_bytes(h.audio_channels, 2)
          \o to_le_bytes(h.audio_offset, 8)
          \o to_le_bytes(h.audio_length, 8)
          \o to_le_bytes(h.index_offset, 8)
          \o Zeros(HEADER_SIZE - 50)

RsfxHeader_to_bytes(h) ==
    MAGIC \o to_le_bytes(VERSION, 2)
          \o to_le_bytes(h.cols, 2)
          \o to_le_bytes(h.rows, 2)
          \o to_le_bytes(h.fps_num, 2)
          \o to_le_bytes(h.fps_den, 2)
          \o to_le_bytes(h.frame_count, 4)
          \o to_le_bytes(h.keyframe_interval, 2)
          \o to_le_bytes(h.audio_sample_rate, 4)
          \o to_le_bytes(h.audio_channels, 2)
          \o to_le_bytes(h.audio_offset, 8)
          \o to_le_bytes(h.audio_length, 8)
          \o to_le_bytes(h.index_offset, 8)
          \o Zeros(HEADER_SIZE - 50)

Ok(v) == [ok |-> TRUE, val |-> v]
Err(e) == [ok |-> FALSE, err |-> e]

\* mutant: the version is looked at before the magic
RsfxHeader_from_bytes_version_first(buf) ==
    IF from_le_bytes(Slice(buf, 4, 6)) # VERSION THEN Err("unsupported version")
    ELSE IF Slice(buf, 0, 4) # MAGIC THEN Err("invalid magic")
    ELSE Ok([cols              |-> from_le_bytes(Slice(buf, 6, 8)),
             rows              |-> from_le_bytes(Slice(buf, 8, 10)),
             fps_num           |-> from_le_bytes(Slice(buf, 10, 12)),
             fps_den           |-> from_le_bytes(Slice(buf, 12, 14)),
             frame_count       |-> from_le_bytes(Slice(buf, 14, 18)),
             keyframe_interval |-> from_le_bytes(Slice(buf, 18, 20)),
             audio_sample_rate |-> from_le_bytes(Slice(buf, 20, 24)),
             audio_channels    |-> from_le_bytes(Slice(buf, 24, 26)),
             audio_offset      |-> from_le_bytes(Slice(buf, 26, 34)),
             audio_length      |-> from_le_bytes(Slice(buf, 34, 42)),
             index_offset      |-> from_le_bytes(Slice(buf, 42, 50))])

RsfxHeader_from_bytes(buf) ==
    IF Slice(buf, 0, 4) # MAGIC THEN Err("invalid magic")
    ELSE IF from_le_bytes(Slice(buf, 4, 6)) # VERSION THEN Err("unsupported version")
    ELSE Ok([cols              |-> from_le_bytes(Slice(buf, 6, 8)),
             rows              |-> from_le_bytes(Slice(buf, 8, 10)),
             fps_num           |-> from_le_bytes(Slice(buf, 10, 12)),
             fps_den           |-> from_le_bytes(Slice(buf, 12, 14)),
             frame_count       |-> from_le_bytes(Slice(buf, 14, 18)),
             keyframe_interval |-> from_le_bytes(Slice(buf, 18, 20)),
             audio_sample_rate |-> from_le_bytes(Slice(buf, 20, 24)),
             audio_channels    |-> from_le_bytes(Slice(buf, 24, 26)),
             audio_offset      |-> from_le_bytes(Slice(buf, 26, 34)),
             audio_length      |-> from_le_bytes(Slice(buf, 34, 42)),
             index_offset      |-> from_le_bytes(Slice(buf, 42, 50))])

FrameIndexEntry(offset, size, type) ==
    [offset |-> offset, compressed_size |-> size, frame_type |-> type]

FrameIndexEntry_to_bytes(e) ==
    to_le_bytes(e.offset, 8) \o to_le_bytes(e.compressed_size, 4)
        \o << FrameType_as_u8(e.frame_type) >> \o Zeros(3)

FrameIndexEntry_from_bytes(buf) ==
    FrameIndexEntry(from_le_bytes(Slice(buf, 0, 8)),
                    from_le_bytes(Slice(buf, 8, 12)),
                    FrameType_from_u8(buf[13]))

(***************************************************************************)
(* compress.rs: the length-prefixed wrapper around the LZ4 block.  The     *)
(* block itself is the external library's; it is modelled as a stored      *)
(* block (the raw bytes), behind the 4-byte little-endian length prefix    *)
(* that compress_prepend_size writes and decompress_size_prepended checks. *)
(***************************************************************************)
compress(data) == to_le_bytes(Len(data), 4) \o data

decompress(data) ==
    IF Len(data) < 4 THEN Err("lz4 decompress failed")
    ELSE IF from_le_bytes(Slice(data, 0, 4)) # Len(data) - 4
         THEN Err("lz4 decompress failed")
         ELSE Ok(Slice(data, 4, Len(data)))


(***************************************************************************)
(* State.                                                                  *)
(*   sink     the bytes of the writer's sink (the .rsfx file)              *)
(*   writer   RsfxWriter: the sink's stream position, header, index,       *)
(*            frame_count                                                  *)
(*   calls    the calls made on the writer so far, in order (history)      *)
(*   reader   RsfxReader::new's result on the finished file, or NoReader   *)
(*   pc       "writing", "finished" (finish returned), "open" (a reader    *)
(*            was opened), "panicked", or "check" for a function check     *)
(*   conv     the converter's main: cli options, prev_cells, frame_num     *)
(*   source   the cell grids of the source frames converted so far         *)
(*   player   the playback loop: frame_idx, current_cells, and which       *)
(*            frames it skipped                                            *)
(*   arg, ret the argument and the result of a function under check        *)
(*   stream   the live renderer's socket: the bytes not yet read, and       *)
(*            whether the sender left the connection open behind them      *)
(*   chan     the mpsc channel from the receiver thread to the main thread *)
(*   live     the live renderer: where its main thread and its receiver    *)
(*            thread are, render_loop's locals, the terminal, the socket   *)
(*            file, and what was discarded, received, processed so far     *)
(***************************************************************************)
VARIABLES sink, writer, calls, reader, pc, conv, source, player, arg, ret,
          stream, chan, live

vars == << sink, writer, calls, reader, pc, conv, source, player, arg, ret,
          stream, chan, live >>

NoReader == [ok |-> FALSE, err |-> "not opened"]
NoConv == [cols |-> 0, rows |-> 0, keyframe_interval |-> 0,
           prev_cells |-> << >>, frame_num |-> 0]
NoPlayer == [state |-> "idle", frame_idx |-> 0, current_cells |-> << >>,
             skipped |-> {}]
NoArg == [fn |-> "none"]
NoStream == [bytes |-> << >>, open |-> FALSE]
NoLive == [main |-> "not started"]

\* the live renderer is not part of the run
ParkedLive == stream = NoStream /\ chan = << >> /\ live = NoLive

(***************************************************************************)
(* The sink: Write + Seek over a growable byte vector.                     *)
(***************************************************************************)
\* write_all at stream position pos: overwrite, extending the sink
write_all(buf, pos, data) ==
    Slice(buf, 0, pos) \o data
        \o (IF pos + Len(data) < Len(buf)
            THEN Slice(buf, pos + Len(data), Len(buf)) ELSE << >>)

\* read_exact of n bytes at position pos
read_exact(buf, pos, n) ==
    IF pos + n > Len(buf) THEN Err("failed to fill whole buffer")
    ELSE Ok(Slice(buf, pos, pos + n))

RECURSIVE CellsRaw(_)
\* the raw body of a keyframe: each cell's 6 bytes, in order
CellsRaw(cells) ==
    IF cells = << >> THEN << >>
    ELSE Cell_to_bytes(Head(cells)) \o CellsRaw(Tail(cells))

RECURSIVE DeltasRaw(_)
\* the raw body of a delta frame: each delta cell's 10 bytes, in order
DeltasRaw(deltas) ==
    IF deltas = << >> THEN << >>
    ELSE DeltaCell_to_bytes(Head(deltas)) \o DeltasRaw(Tail(deltas))

(***************************************************************************)
(* encode.rs: RsfxWriter.                                                  *)
(***************************************************************************)
\* RsfxWriter::new's header
NewHeader(cols, rows, fps, keyframe_interval) ==
    [cols |-> cols, rows |-> rows, fps_num |-> fps, fps_den |-> 1,
     frame_count |-> 0, keyframe_interval |-> keyframe_interval,
     audio_sample_rate |-> 0, audio_channels |-> 0,
     audio_offset |-> 0, audio_length |-> 0, index_offset |-> 0]

\* RsfxWriter::new on an empty sink: the placeholder header is written
RsfxWriter_new(cols, rows, fps, keyframe_interval) ==
    LET header == NewHeader(cols, rows, fps, keyframe_interval)
    IN  /\ sink = write_all(<< >>, 0, RsfxHeader_to_bytes(header))
        /\ writer = [pos |-> HEADER_SIZE, header |-> header,
                     index |-> << >>, frame_count |-> 0]
        /\ calls = << >>

\* mutant: the stream position is taken after the payload was written
PushedEntry_offset_after_write(offset, compressed, type) ==
    FrameIndexEntry(offset + Len(compressed), Len(compressed), type)

\* the index entry write_keyframe / write_delta push
PushedEntry(offset, compressed, type) ==
    FrameIndexEntry(offset, Len(compressed), type)

write_keyframe(cells) ==
    LET compressed == compress(CellsRaw(cells))
        offset == writer.pos
    IN  /\ sink' = write_all(sink, offset, compressed)
        /\ writer' = [writer EXCEPT
                        !.pos = offset + Len(compressed),
                        !.index = Append(@, PushedEntry(offset, compressed, "Keyframe")),
                        !.frame_count = @ + 1]
        /\ calls' = Append(calls, [op |-> "write_keyframe", cells |-> cells])

write_delta(deltas) ==
    LET compressed == compress(DeltasRaw(deltas))
        offset == writer.pos
    IN  /\ sink' = write_all(sink, offset, compressed)
        /\ writer' = [writer EXCEPT
                        !.pos = offset + Len(compressed),
                        !.index = Append(@, PushedEntry(offset, compressed, "Delta")),
                        !.frame_count = @ + 1]
        /\ calls' = Append(calls, [op |-> "write_delta", deltas |-> deltas])

\* mutant: the stream position is taken after the pcm was written
AudioHeader_offset_after_write(header, offset, pcm_data, sample_rate, channels) ==
    [header EXCEPT !.audio_offset = offset + Len(pcm_data),
                   !.audio_length = Len(pcm_data),
                   !.audio_sample_rate = sample_rate,
                   !.audio_channels = channels]

\* the header fields write_audio records
AudioHeader(header, offset, pcm_data, sample_rate, channels) ==
    [header EXCEPT !.audio_offset = offset,
                   !.audio_length = Len(pcm_data),
                   !.audio_sample_rate = sample_rate,
                   !.audio_channels = channels]

\* mutant: the pcm is written but the position it ends at is lost
write_audio_keeps_pos(pcm_data, sample_rate, channels) ==
    LET offset == writer.pos
    IN  /\ sink' = write_all(sink, offset, pcm_data)
        /\ writer' = [writer EXCEPT
                        !.header = AudioHeader(@, offset, pcm_data, sample_rate, channels)]
        /\ calls' = Append(calls, [op |-> "write_audio", pcm |-> pcm_data,
                                   rate |-> sample_rate, channels |-> channels])

write_audio(pcm_data, sample_rate, channels) ==
    LET offset == writer.pos
    IN  /\ sink' = write_all(sink, offset, pcm_data)
        /\ writer' = [writer EXCEPT
                        !.pos = offset + Len(pcm_data),
                        !.header = AudioHeader(@, offset, pcm_data, sample_rate, channels)]
        /\ calls' = Append(calls, [op |-> "write_audio", pcm |-> pcm_data,
                                   rate |-> sample_rate, channels |-> channels])

RECURSIVE IndexRaw(_)
\* the index as finish writes it: each entry's 16 bytes, in order
IndexRaw(index) ==
    IF index = << >> THEN << >>
    ELSE FrameIndexEntry_to_bytes(Head(index)) \o IndexRaw(Tail(index))

\* mutant: the index offset is not recorded
FinishHeader_keeps_index_offset(header, frame_count, index_offset) ==
    [header EXCEPT !.frame_count = frame_count]

\* the header finish rewrites at offset 0
FinishHeader(header, frame_count, index_offset) ==
    [header EXCEPT !.frame_count = frame_count, !.index_offset = index_offset]

finish ==
    LET index_offset == writer.pos
        withIndex == write_all(sink, index_offset, IndexRaw(writer.index))
        header == FinishHeader(writer.header, writer.frame_count, index_offset)
    IN  /\ sink' = write_all(withIndex, 0, RsfxHeader_to_bytes(header))
        /\ writer' = [writer EXCEPT !.header = header, !.pos = Len(withIndex)]
        /\ calls' = calls

(***************************************************************************)
(* decode.rs: RsfxReader.                                                  *)
(***************************************************************************)
RECURSIVE ReadIndex(_, _, _)
\* the loop of RsfxReader::new reading n index entries from position pos
ReadIndex(buf, pos, n) ==
    IF n = 0 THEN Ok(<< >>)
    ELSE LET entry_buf == read_exact(buf, pos, INDEX_ENTRY_SIZE)
         IN  IF ~entry_buf.ok THEN entry_buf
             ELSE LET rest == ReadIndex(buf, pos + INDEX_ENTRY_SIZE, n - 1)
                  IN  IF ~rest.ok THEN rest
                      ELSE Ok(<< FrameIndexEntry_from_bytes(entry_buf.val) >> \o rest.val)

RsfxReader_new(buf) ==
    LET header_buf == read_exact(buf, 0, HEADER_SIZE)
    IN  IF ~header_buf.ok THEN header_buf
        ELSE LET header == RsfxHeader_from_bytes(header_buf.val)
             IN  IF ~header.ok THEN header
                 ELSE LET index == ReadIndex(buf, header.val.index_offset,
                                             header.val.frame_count)
                      IN  IF ~index.ok THEN index
                          ELSE Ok([header |-> header.val, index |-> index.val])

\* self.index[frame_idx] out of range panics
read_frame_raw(r, buf, frame_idx) ==
    IF frame_idx >= Len(r.index) THEN Err("panic: index out of bounds")
    ELSE LET entry == r.index[frame_idx + 1]
             compressed == read_exact(buf, entry.offset, entry.compressed_size)
         IN  IF ~compressed.ok THEN compressed ELSE decompress(compressed.val)

read_keyframe(r, buf, frame_idx) ==
    LET raw == read_frame_raw(r, buf, frame_idx)
    IN  IF ~raw.ok THEN raw
        ELSE LET cell_count == Len(raw.val) \div CELL_SIZE
             IN  Ok([i \in 1..cell_count |->
                       Cell_from_bytes(Slice(raw.val, (i - 1) * CELL_SIZE, i * CELL_SIZE))])

read_delta(r, buf, frame_idx) ==
    LET raw == read_frame_raw(r, buf, frame_idx)
    IN  IF ~raw.ok THEN raw
        ELSE LET count == Len(raw.val) \div DELTA_CELL_SIZE
             IN  Ok([i \in 1..count |->
                       DeltaCell_from_bytes(Slice(raw.val, (i - 1) * DELTA_CELL_SIZE,
                                                  i * DELTA_CELL_SIZE))])

read_audio(r, buf) ==
    IF r.header.audio_length = 0 THEN Ok(<< >>)
    ELSE read_exact(buf, r.header.audio_offset, r.header.audio_length)

frame_type(r, frame_idx) == r.index[frame_idx + 1].frame_type

(***************************************************************************)
(* converter/src/delta.rs: compute_delta.                                  *)
(***************************************************************************)
Keyframe(cells) == [type |-> "Keyframe", cells |-> cells]
Delta(deltas) == [type |-> "Delta", deltas |-> deltas]

\* mutant: x and y exchanged
DeltaAt_xy_exchanged(i, cols, cell) ==
    DeltaCell(AsU16(i \div cols), AsU16(i % cols), cell)

\* the DeltaCell pushed for the changed cell at flat index i (0-based)
DeltaAt(i, cols, cell) ==
    DeltaCell(AsU16(i % cols), AsU16(i \div cols), cell)

\* mutant: the scan stops one cell early
ChangedCells_stops_early(prev, current, cols) ==
    LET changed == SelectSeq([k \in 1..(Len(current) - 1) |-> k - 1],
                             LAMBDA i : current[i + 1] # prev[i + 1])
    IN  [k \in 1..Len(changed) |->
            DeltaAt(changed[k], cols, current[changed[k] + 1])]

\* the scan `for i in 0..total`: a DeltaCell for every index where current
\* differs from prev, in index order
ChangedCells(prev, current, cols) ==
    LET changed == SelectSeq([k \in 1..Len(current) |-> k - 1],
                             LAMBDA i : current[i + 1] # prev[i + 1])
    IN  [k \in 1..Len(changed) |->
            DeltaAt(changed[k], cols, current[changed[k] + 1])]

\* mutant: promotion at 60% already
Promoted_at_threshold(n, total) == n >= (total * 60) \div 100

\* mutant: promotion above 70%
Promoted_above_70(n, total) == n > (total * 70) \div 100

\* deltas.len() > total * 60 / 100
Promoted(n, total) == n > (total * 60) \div 100

compute_delta(prev, current, cols, force_keyframe) ==
    IF force_keyframe \/ prev = << >> THEN Keyframe(current)
    ELSE LET total == Len(current)
             deltas == ChangedCells(prev, current, cols)
         IN  IF Promoted(Len(deltas), total) THEN Keyframe(current)
             ELSE Delta(deltas)

(***************************************************************************)
(* player/src/main.rs: applying a delta frame to current_cells.            *)
(***************************************************************************)
\* mutant: the index is computed as x*cols + y
apply_deltas_row_major_x(current_cells, deltas, cols) ==
    [k \in 1..Len(current_cells) |->
        LET hits == { n \in 1..Len(deltas) :
                        deltas[n].x * cols + deltas[n].y = k - 1 }
        IN  IF hits = {} THEN current_cells[k] ELSE deltas[Max(hits)].cell]

\* for d in &deltas: idx = y*cols + x; if idx < len { current_cells[idx] = d.cell }
\* (each cell ends as the last delta cell written to its index; a delta cell
\* whose index is outside the grid writes nothing)
apply_deltas(current_cells, deltas, cols) ==
    [k \in 1..Len(current_cells) |->
        LET hits == { n \in 1..Len(deltas) :
                        deltas[n].y * cols + deltas[n].x = k - 1 }
        IN  IF hits = {} THEN current_cells[k] ELSE deltas[Max(hits)].cell]

(***************************************************************************)
(* player/src/render.rs: the bytes of a rendered frame.                    *)
(***************************************************************************)
HALF_BLOCK == << 226, 150, 132 >>
CSI == << 27, 91 >>
HOME == CSI \o << 72 >>
RESET == CSI \o << 48, 109 >>
CRLF == << 13, 10 >>
BG_PREFIX == CSI \o << 52, 56, 59, 50, 59 >>
FG_PREFIX == CSI \o << 51, 56, 59, 50, 59 >>

\* integer to ASCII, 0..255, no leading zeros
write_u8(v) ==
    IF v >= 100 THEN << 48 + (v \div 100), 48 + ((v \div 10) % 10), 48 + (v % 10) >>
    ELSE IF v >= 10 THEN << 48 + (v \div 10), 48 + (v % 10) >>
    ELSE << 48 + v >>

\* integer to ASCII, 0..65535
write_u16(v) ==
    IF v >= 10000
    THEN << 48 + (v \div 10000), 48 + ((v \div 1000) % 10), 48 + ((v \div 100) % 10),
            48 + ((v \div 10) % 10), 48 + (v % 10) >>
    ELSE IF v >= 1000
    THEN << 48 + (v \div 1000), 48 + ((v \div 100) % 10), 48 + ((v \div 10) % 10),
            48 + (v % 10) >>
    ELSE IF v >= 100
    THEN << 48 + (v \div 100), 48 + ((v \div 10) % 10), 48 + (v % 10) >>
    ELSE IF v >= 10 THEN << 48 + (v \div 10), 48 + (v % 10) >>
    ELSE << 48 + v >>

write_bg(r, g, b) ==
    BG_PREFIX \o write_u8(r) \o << 59 >> \o write_u8(g) \o << 59 >>
              \o write_u8(b) \o << 109 >>

write_fg(r, g, b) ==
    FG_PREFIX \o write_u8(r) \o << 59 >> \o write_u8(g) \o << 59 >>
              \o write_u8(b) \o << 109 >>

\* CSI row ; col H, the row and column 1-indexed by the caller
write_cursor_pos(row, col) ==
    CSI \o write_u16(row) \o << 59 >> \o write_u16(col) \o << 72 >>

\* mutant: the colour is written only when it differs from prev, the first
\* cell included
render_cell_no_first(s, cell) ==
    LET bg == << cell.bg_r, cell.bg_g, cell.bg_b >>
        fg == << cell.fg_r, cell.fg_g, cell.fg_b >>
    IN  [buf |-> s.buf
                  \o (IF bg # s.prev_bg THEN write_bg(bg[1], bg[2], bg[3]) ELSE << >>)
                  \o (IF fg # s.prev_fg THEN write_fg(fg[1], fg[2], fg[3]) ELSE << >>)
                  \o HALF_BLOCK,
         prev_bg |-> bg, prev_fg |-> fg, first |-> FALSE]

\* render_keyframe: the body of `for col in 0..cols`, s being buf, prev_bg,
\* prev_fg and first
render_cell(s, cell) ==
    LET bg == << cell.bg_r, cell.bg_g, cell.bg_b >>
        fg == << cell.fg_r, cell.fg_g, cell.fg_b >>
        paint_bg == s.first \/ bg # s.prev_bg
        paint_fg == s.first \/ fg # s.prev_fg
    IN  [buf |-> s.buf
                  \o (IF paint_bg THEN write_bg(bg[1], bg[2], bg[3]) ELSE << >>)
                  \o (IF paint_fg THEN write_fg(fg[1], fg[2], fg[3]) ELSE << >>)
                  \o HALF_BLOCK,
         prev_bg |-> IF paint_bg THEN bg ELSE s.prev_bg,
         prev_fg |-> IF paint_fg THEN fg ELSE s.prev_fg,
         first |-> FALSE]

RECURSIVE render_cols(_, _, _, _, _)
\* the state after columns 0..n-1 of a row, s being the state at its start
render_cols(s, cells, cols, row, n) ==
    IF n = 0 THEN s
    ELSE render_cell(render_cols(s, cells, cols, row, n - 1),
                     cells[row * cols + (n - 1) + 1])

RECURSIVE render_rows(_, _, _)
\* the state after rows 0..n-1
render_rows(cells, cols, n) ==
    IF n = 0
    THEN [buf |-> HOME, prev_bg |-> << 255, 255, 255 >>,
          prev_fg |-> << 255, 255, 255 >>, first |-> TRUE]
    ELSE LET s == render_rows(cells, cols, n - 1)
             row == n - 1
         IN  render_cols(IF row > 0 THEN [s EXCEPT !.buf = @ \o CRLF] ELSE s,
                         cells, cols, row, cols)

render_keyframe(cells, cols, rows) == render_rows(cells, cols, rows).buf \o RESET

RECURSIVE render_delta(_)
\* for d in deltas: cursor position, bg, fg, glyph
render_delta(deltas) ==
    IF deltas = << >> THEN << >>
    ELSE LET d == deltas[Len(deltas)]
         IN  render_delta(SubSeq(deltas, 1, Len(deltas) - 1))
             \o write_cursor_pos(d.y + 1, d.x + 1)
             \o write_bg(d.cell.bg_r, d.cell.bg_g, d.cell.bg_b)
             \o write_fg(d.cell.fg_r, d.cell.fg_g, d.cell.fg_b)
             \o HALF_BLOCK

(***************************************************************************)
(* The terminal the player writes to: what the bytes of a render buffer    *)
(* do to the cells shown (ECMA-48: CUP, SGR 48;2 / 38;2 / 0, CR LF, and a  *)
(* glyph painted at the cursor in the current colours).  t is the cursor   *)
(* (0-based), the current colours and the cols x rows cells of the screen  *)
(* the video occupies; what is painted outside them is not kept.           *)
(***************************************************************************)
\* a screen cell that shows no video cell (the splash screen)
Splash == [glyph |-> "splash"]
\* the colour after SGR 0
DefaultColour == << -1, -1, -1 >>

At(buf, k, s) ==
    /\ k + Len(s) - 1 <= Len(buf)
    /\ SubSeq(buf, k, k + Len(s) - 1) = s

\* the first position at or after k that holds no decimal digit
DigitsEnd(buf, k) ==
    CHOOSE j \in k..(Len(buf) + 1) :
        /\ j = Len(buf) + 1 \/ buf[j] \notin 48..57
        /\ \A i \in k..(j - 1) : buf[i] \in 48..57

\* the decimal number written in buf[k..j-1]
RECURSIVE Number(_, _, _)
Number(buf, k, j) ==
    IF j <= k THEN 0 ELSE Number(buf, k, j - 1) * 10 + (buf[j - 1] - 48)

\* the three numbers r;g;b that start at k, and the position after the 'm'
Colour(buf, k) ==
    LET e1 == DigitsEnd(buf, k)
        e2 == DigitsEnd(buf, e1 + 1)
        e3 == DigitsEnd(buf, e2 + 1)
    IN  [rgb |-> << Number(buf, k, e1), Number(buf, e1 + 1, e2), Number(buf, e2 + 1, e3) >>,
         next |-> e3 + 1]

NewTerminal(cols, rows) ==
    [row |-> 0, col |-> 0, bg |-> DefaultColour, fg |-> DefaultColour,
     cols |-> cols, cells |-> [k \in 1..(cols * rows) |-> Splash]]

\* the glyph painted at the cursor, which then moves one column right
Paint(t) ==
    LET idx == t.row * t.cols + t.col
        shown == Cell(t.bg[1], t.bg[2], t.bg[3], t.fg[1], t.fg[2], t.fg[3])
    IN  [t EXCEPT !.col = @ + 1,
                  !.cells = IF t.col < t.cols /\ idx < Len(t.cells)
                            THEN [@ EXCEPT ![idx + 1] = shown]
                            ELSE @]

\* the terminal after the bytes of buf from position k on
RECURSIVE Terminal(_, _, _)
Terminal(t, buf, k) ==
    IF k > Len(buf) THEN t
    ELSE IF At(buf, k, HOME)
    THEN Terminal([t EXCEPT !.row = 0, !.col = 0], buf, k + Len(HOME))
    ELSE IF At(buf, k, RESET)
    THEN Terminal([t EXCEPT !.bg = DefaultColour, !.fg = DefaultColour], buf, k + Len(RESET))
    ELSE IF At(buf, k, BG_PREFIX)
    THEN LET c == Colour(buf, k + Len(BG_PREFIX))
         IN  Terminal([t EXCEPT !.bg = c.rgb], buf, c.next)
    ELSE IF At(buf, k, FG_PREFIX)
    THEN LET c == Colour(buf, k + Len(FG_PREFIX))
         IN  Terminal([t EXCEPT !.fg = c.rgb], buf, c.next)
    ELSE IF At(buf, k, CSI)
    THEN LET e1 == DigitsEnd(buf, k + Len(CSI))
             e2 == DigitsEnd(buf, e1 + 1)
         IN  Terminal([t EXCEPT !.row = Number(buf, k + Len(CSI), e1) - 1,
                                !.col = Number(buf, e1 + 1, e2) - 1], buf, e2 + 1)
    ELSE IF At(buf, k, CRLF)
    THEN Terminal([t EXCEPT !.row = @ + 1, !.col = 0], buf, k + Len(CRLF))
    ELSE IF At(buf, k, HALF_BLOCK)
    THEN Terminal(Paint(t), buf, k + Len(HALF_BLOCK))
    ELSE Terminal(t, buf, k + 1)

\* stdout.write_all(render_buf); stdout.flush()
stdout_write_all(t, buf) == Terminal(t, buf, 1)

(***************************************************************************)
(* Spec: a writer driven by any calls, then finish, then a reader opened   *)
(* on the bytes (the shape of lib.rs's roundtrip_keyframe_and_delta).      *)
(***************************************************************************)
CellA == Cell(1, 2, 3, 4, 5, 6)
CellB == Cell(255, 0, 128, 7, 200, 9)

\* cols, rows, fps, keyframe_interval handed to RsfxWriter::new
WriterParams == { << 4, 2, 30, 30 >>, << 300, 1, 24, 1 >> }

\* grids handed to write_keyframe (the writer does not check their length)
KeyframeInputs == { << >>, << CellA >>, << CellB, CellA >> }

\* delta lists handed to write_delta (the writer does not check positions)
DeltaInputs == { << >>, << DeltaCell(1, 0, CellB) >>,
                 << DeltaCell(258, 513, CellA), DeltaCell(3, 1, CellB) >> }

\* pcm, sample_rate, channels handed to write_audio
AudioInputs == { << << >>, 44100, 2 >>, << << 0, 0, 0, 0 >>, 44100, 2 >>,
                 << << 1, 255, 7 >>, 16000, 1 >> }

Parked ==
    /\ conv = NoConv /\ source = << >> /\ player = NoPlayer
    /\ arg = NoArg /\ ret = NoArg
    /\ ParkedLive

Init ==
    /\ \E p \in WriterParams : RsfxWriter_new(p[1], p[2], p[3], p[4])
    /\ reader = NoReader
    /\ pc = "writing"
    /\ Parked

AudioCalls == Len(SelectSeq(calls, LAMBDA c : c.op = "write_audio"))

WriteKeyframe ==
    /\ pc = "writing"
    /\ writer.frame_count < MaxFrames
    /\ \E cells \in KeyframeInputs : write_keyframe(cells)
    /\ UNCHANGED << reader, pc, conv, source, player, arg, ret, stream, chan, live >>

WriteDelta ==
    /\ pc = "writing"
    /\ writer.frame_count < MaxFrames
    /\ \E deltas \in DeltaInputs : write_delta(deltas)
    /\ UNCHANGED << reader, pc, conv, source, player, arg, ret, stream, chan, live >>

WriteAudio ==
    /\ pc = "writing"
    /\ AudioCalls < MaxAudioCalls
    /\ \E a \in AudioInputs : write_audio(a[1], a[2], a[3])
    /\ UNCHANGED << reader, pc, conv, source, player, arg, ret, stream, chan, live >>

Finish ==
    /\ pc = "writing"
    /\ finish
    /\ pc' = "finished"
    /\ UNCHANGED << reader, conv, source, player, arg, ret, stream, chan, live >>

OpenReader ==
    /\ pc = "finished"
    /\ reader' = RsfxReader_new(sink)
    /\ pc' = "open"
    /\ UNCHANGED << sink, writer, calls, conv, source, player, arg, ret, stream, chan, live >>

Next == WriteKeyframe \/ WriteDelta \/ WriteAudio \/ Finish \/ OpenReader

Spec == Init /\ [][Next]_vars

(***************************************************************************)
(* Claims about the container (checked under Spec).                        *)
(***************************************************************************)
\* the write_keyframe / write_delta calls made so far, in order
FrameCalls == SelectSeq(calls, LAMBDA c : c.op # "write_audio")

\* what the reader returns for frame i (0-based), read by the call's type
ReadBack(i) ==
    IF frame_type(reader.val, i) = "Keyframe"
    THEN read_keyframe(reader.val, sink, i)
    ELSE read_delta(reader.val, sink, i)

\* what the i-th call (0-based) was given
Written(i) ==
    IF FrameCalls[i + 1].op = "write_keyframe"
    THEN FrameCalls[i + 1].cells ELSE FrameCalls[i + 1].deltas

\* C1: a reader opened on the bytes finish returned reports as many frames
\* as write_keyframe / write_delta calls were made, and for every i the type
\* of frame i is the type of the i-th call and read_keyframe(i) /
\* read_delta(i) returns exactly the cells / delta cells of the i-th call.
C1_Roundtrip ==
    pc = "open" =>
        /\ reader.ok
        /\ reader.val.header.frame_count = Len(FrameCalls)
        /\ Len(reader.val.index) = Len(FrameCalls)
        /\ \A i \in 0..(Len(FrameCalls) - 1) :
              /\ frame_type(reader.val, i) =
                    (IF FrameCalls[i + 1].op = "write_keyframe"
                     THEN "Keyframe" ELSE "Delta")
              /\ ReadBack(i) = Ok(Written(i))

\* a keyframe of two cells and a delta of two delta cells were written and
\* read back
C1_Witness ==
    /\ pc = "open"
    /\ reader.ok
    /\ \E i, j \in 0..(Len(FrameCalls) - 1) :
          /\ FrameCalls[i + 1].op = "write_keyframe"
          /\ Len(FrameCalls[i + 1].cells) = 2
          /\ read_keyframe(reader.val, sink, i) = Ok(FrameCalls[i + 1].cells)
          /\ FrameCalls[j + 1].op = "write_delta"
          /\ Len(FrameCalls[j + 1].deltas) = 2
          /\ read_delta(reader.val, sink, j) = Ok(FrameCalls[j + 1].deltas)

\* write_audio was called exactly once, after every frame call
AudioOnceLast ==
    /\ AudioCalls = 1
    /\ calls[Len(calls)].op = "write_audio"

\* C8: if write_audio(pcm, rate, channels) was called once, after all frames
\* and before finish, read_audio returns exactly pcm and the header reports
\* rate and channels; if write_audio was never called the header's
\* audio_length is 0 and read_audio returns the empty vector.
C8_AudioRoundtrip ==
    pc = "open" =>
        /\ reader.ok
        /\ AudioOnceLast =>
              /\ read_audio(reader.val, sink) = Ok(calls[Len(calls)].pcm)
              /\ reader.val.header.audio_sample_rate = calls[Len(calls)].rate
              /\ reader.val.header.audio_channels = calls[Len(calls)].channels
        /\ AudioCalls = 0 =>
              /\ reader.val.header.audio_length = 0
              /\ read_audio(reader.val, sink) = Ok(<< >>)

\* a non-empty pcm written after two frames was read back
C8_Witness ==
    /\ pc = "open"
    /\ reader.ok
    /\ AudioOnceLast
    /\ Len(FrameCalls) >= 2
    /\ calls[Len(calls)].pcm = << 1, 255, 7 >>
    /\ read_audio(reader.val, sink) = Ok(<< 1, 255, 7 >>)

\* no write_audio call precedes a frame call
AudioAfterFrames ==
    \A i, j \in 1..Len(calls) :
        (i < j /\ calls[i].op = "write_audio") => calls[j].op = "write_audio"

\* the raw body the i-th frame call (1-based) was given
RawOf(c) ==
    IF c.op = "write_keyframe" THEN CellsRaw(c.cells) ELSE DeltasRaw(c.deltas)

\* index entries laid out from the end of the header, each payload where
\* its entry says
Contiguous(index) ==
    /\ Len(index) = Len(FrameCalls)
    /\ Len(index) > 0 => index[1].offset = HEADER_SIZE
    /\ \A i \in 1..(Len(index) - 1) :
          index[i + 1].offset = index[i].offset + index[i].compressed_size
    /\ \A i \in 1..Len(index) :
          /\ index[i].offset + index[i].compressed_size <= Len(sink)
          /\ Slice(sink, index[i].offset, index[i].offset + index[i].compressed_size)
                = compress(RawOf(FrameCalls[i]))

\* C10: when write_audio is called only after all frames, after any
\* sequence of write_keyframe / write_delta calls index entry 0 has offset
\* 64, every entry i+1 has offset = entry i's offset + compressed_size, and
\* each payload lies at [offset, offset+compressed_size); the index a reader
\* loads from the finished file says the same.
C10_PayloadsContiguous ==
    AudioAfterFrames =>
        /\ Contiguous(writer.index)
        /\ pc = "open" => reader.ok /\ Contiguous(reader.val.index)

\* three frames followed by audio, finished and opened
C10_Witness ==
    /\ pc = "open"
    /\ reader.ok
    /\ AudioAfterFrames
    /\ AudioCalls = 1
    /\ Len(reader.val.index) = 3
    /\ reader.val.index[3].offset > reader.val.index[2].offset
    /\ reader.val.index[2].offset > reader.val.index[1].offset

\* the header a reader would decode from the first 64 bytes of the sink
HeaderOnDisk == RsfxHeader_from_bytes(Slice(sink, 0, HEADER_SIZE))

\* the i-th (1-based) 16-byte index entry found at index_offset in the sink
EntryOnDisk(index_offset, i) ==
    FrameIndexEntry_from_bytes(
        Slice(sink, index_offset + (i - 1) * INDEX_ENTRY_SIZE,
                    index_offset + i * INDEX_ENTRY_SIZE))

RECURSIVE SumSizes(_)
\* the sum of compressed_size over an index
SumSizes(index) ==
    IF index = << >> THEN 0
    ELSE Head(index).compressed_size + SumSizes(Tail(index))

\* C11: after finish the header at offset 0 has frame_count = the number of
\* frames written and index_offset >= 64 + the sum of every compressed_size;
\* exactly frame_count * 16 bytes of index lie at index_offset and end the
\* file, entry i being the entry of the i-th frame written (its type, the
\* size of its compressed body, an offset where that body lies); the stream
\* is positioned at the end of the file.
C11_FinishedLayout ==
    pc \in {"finished", "open"} =>
        /\ HeaderOnDisk.ok
        /\ LET h == HeaderOnDisk.val
           IN  /\ h.frame_count = Len(FrameCalls)
               /\ h.index_offset >= HEADER_SIZE + SumSizes(writer.index)
               /\ h.index_offset + h.frame_count * INDEX_ENTRY_SIZE = Len(sink)
               /\ \A i \in 1..Len(FrameCalls) :
                     LET e == EntryOnDisk(h.index_offset, i)
                         body == compress(RawOf(FrameCalls[i]))
                     IN  /\ e = writer.index[i]
                         /\ e.frame_type =
                               (IF FrameCalls[i].op = "write_keyframe"
                                THEN "Keyframe" ELSE "Delta")
                         /\ e.compressed_size = Len(body)
                         /\ Slice(sink, e.offset, e.offset + e.compressed_size) = body
               /\ writer.pos = Len(sink)

\* three frames with an audio blob written before the last of them, finished:
\* index_offset lies strictly beyond 64 + the sum of the compressed sizes
C11_Witness ==
    /\ pc = "finished"
    /\ Len(FrameCalls) = 3
    /\ AudioCalls = 1
    /\ calls[Len(calls)].op # "write_audio"
    /\ HeaderOnDisk.ok
    /\ HeaderOnDisk.val.frame_count = 3
    /\ HeaderOnDisk.val.index_offset > HEADER_SIZE + SumSizes(writer.index)

(***************************************************************************)
(* SpecFile: a writer driven by any calls in any order (write_audio any    *)
(* number of times), finish, the bytes then possibly damaged on disk,      *)
(* RsfxReader::new on them, and the reader's frame accessors called with   *)
(* any frame_idx.                                                          *)
(***************************************************************************)
\* cols, rows, fps, keyframe_interval handed to RsfxWriter::new
FileParams == { << 2, 1, 30, 30 >> }

\* grids handed to write_keyframe: a full 2x1 grid and a short one
FileKeyframes == { << CellA, CellB >>, << CellA >> }

FileDeltas == { << DeltaCell(1, 0, CellB) >> }

\* pcm handed to write_audio (16000 Hz, mono)
FilePcm == { << >>, << 1, 255, 7 >> }

InitFile ==
    /\ \E p \in FileParams : RsfxWriter_new(p[1], p[2], p[3], p[4])
    /\ reader = NoReader
    /\ pc = "writing"
    /\ Parked

FileKeyframe ==
    /\ pc = "writing"
    /\ writer.frame_count < MaxFileFrames
    /\ \E cells \in FileKeyframes : write_keyframe(cells)
    /\ UNCHANGED << reader, pc, conv, source, player, arg, ret, stream, chan, live >>

FileDelta ==
    /\ pc = "writing"
    /\ writer.frame_count < MaxFileFrames
    /\ \E deltas \in FileDeltas : write_delta(deltas)
    /\ UNCHANGED << reader, pc, conv, source, player, arg, ret, stream, chan, live >>

FileAudio ==
    /\ pc = "writing"
    /\ AudioCalls < MaxAudioWrites
    /\ \E pcm \in FilePcm : write_audio(pcm, 16000, 1)
    /\ UNCHANGED << reader, pc, conv, source, player, arg, ret, stream, chan, live >>

FileFinish ==
    /\ pc = "writing"
    /\ finish
    /\ pc' = "finished"
    /\ UNCHANGED << reader, conv, source, player, arg, ret, stream, chan, live >>

\* bytes overwritten on disk, as sets of << offset, byte >>: in the magic, in
\* the version, in both, in the declared frame_count; or none
PokeSets == { {}, { << 0, 0 >> }, { << 3, 120 >> }, { << 4, 2 >> }, { << 5, 1 >> },
              { << 0, 0 >>, << 4, 2 >> }, { << 14, 200 >> } }

\* how much of the file is left on disk
Cuts == { "whole", "last byte lost", "63 bytes" }

Damages == [pokes : PokeSets, cut : Cuts]

\* the bytes found on disk after damage d
Damaged(buf, d) ==
    LET poked == [k \in 1..Len(buf) |->
                     IF \E q \in d.pokes : q[1] = k - 1
                     THEN (CHOOSE q \in d.pokes : q[1] = k - 1)[2]
                     ELSE buf[k]]
        keep == IF d.cut = "whole" THEN Len(buf)
                ELSE IF d.cut = "last byte lost" THEN Len(buf) - 1
                ELSE HEADER_SIZE - 1
    IN  Slice(poked, 0, keep)

FileDamage ==
    /\ pc = "finished"
    /\ \E d \in Damages :
          /\ sink' = Damaged(sink, d)
          /\ arg' = [fn |-> "damage", pokes |-> d.pokes, cut |-> d.cut]
    /\ pc' = "on disk"
    /\ UNCHANGED << writer, calls, reader, conv, source, player, ret, stream, chan, live >>

FileOpen ==
    /\ pc = "on disk"
    /\ reader' = RsfxReader_new(sink)
    /\ pc' = "open"
    /\ UNCHANGED << sink, writer, calls, conv, source, player, arg, ret, stream, chan, live >>

\* the frame_idx values a caller passes: in range and beyond frame_count
FrameIdxs == 0..(MaxFileFrames + 1)

\* a call that indexed self.index out of range has panicked
Panicked(out) == ~out.ok /\ out.err = "panic: index out of bounds"

CallFrameType ==
    /\ pc = "open"
    /\ reader.ok
    /\ \E frame_idx \in FrameIdxs :
          LET out == IF frame_idx >= Len(reader.val.index)
                     THEN Err("panic: index out of bounds")
                     ELSE Ok(frame_type(reader.val, frame_idx))
          IN  /\ ret' = [fn |-> "frame_type", frame_idx |-> frame_idx, out |-> out]
              /\ pc' = IF Panicked(out) THEN "panicked" ELSE "open"
    /\ UNCHANGED << sink, writer, calls, reader, conv, source, player, arg, stream, chan, live >>

CallReadKeyframe ==
    /\ pc = "open"
    /\ reader.ok
    /\ \E frame_idx \in FrameIdxs :
          LET out == read_keyframe(reader.val, sink, frame_idx)
          IN  /\ ret' = [fn |-> "read_keyframe", frame_idx |-> frame_idx, out |-> out]
              /\ pc' = IF Panicked(out) THEN "panicked" ELSE "open"
    /\ UNCHANGED << sink, writer, calls, reader, conv, source, player, arg, stream, chan, live >>

CallReadDelta ==
    /\ pc = "open"
    /\ reader.ok
    /\ \E frame_idx \in FrameIdxs :
          LET out == read_delta(reader.val, sink, frame_idx)
          IN  /\ ret' = [fn |-> "read_delta", frame_idx |-> frame_idx, out |-> out]
              /\ pc' = IF Panicked(out) THEN "panicked" ELSE "open"
    /\ UNCHANGED << sink, writer, calls, reader, conv, source, player, arg, stream, chan, live >>

NextFile ==
    \/ FileKeyframe \/ FileDelta \/ FileAudio \/ FileFinish
    \/ FileDamage \/ FileOpen
    \/ CallFrameType \/ CallReadKeyframe \/ CallReadDelta

SpecFile == InitFile /\ [][NextFile]_vars

\* C12: for any order and number of write_keyframe, write_delta and
\* write_audio calls followed by finish, if the header's audio_length > 0
\* the bytes [audio_offset, audio_offset+audio_length) lie inside the file
\* and share no byte with the header, with any frame payload of the index,
\* or with the index.
Disjoint(a, alen, b, blen) == a + alen <= b \/ b + blen <= a

C12_AudioDisjoint ==
    pc = "finished" =>
        /\ HeaderOnDisk.ok
        /\ LET h == HeaderOnDisk.val
           IN  h.audio_length > 0 =>
                 /\ h.audio_offset + h.audio_length <= Len(sink)
                 /\ Disjoint(h.audio_offset, h.audio_length, 0, HEADER_SIZE)
                 /\ Disjoint(h.audio_offset, h.audio_length,
                             h.index_offset, h.frame_count * INDEX_ENTRY_SIZE)
                 /\ \A i \in 1..h.frame_count :
                       LET e == EntryOnDisk(h.index_offset, i)
                       IN  Disjoint(h.audio_offset, h.audio_length,
                                    e.offset, e.compressed_size)

\* two write_audio calls with frames before, between and after them; the
\* header names the second blob
C12_Witness ==
    /\ pc = "finished"
    /\ AudioCalls = 2
    /\ Len(calls) = 4
    /\ calls[1].op # "write_audio" /\ calls[2].op = "write_audio"
    /\ calls[3].op = "write_audio" /\ calls[3].pcm # << >>
    /\ calls[4].op # "write_audio"
    /\ HeaderOnDisk.ok
    /\ HeaderOnDisk.val.audio_length = 3
    /\ HeaderOnDisk.val.audio_offset > HEADER_SIZE

\* what the bytes on disk say, read off the bytes themselves
ShortHeader == Len(sink) < 64
BadMagic == ~ShortHeader /\ << sink[1], sink[2], sink[3], sink[4] >> # << 82, 83, 70, 88 >>
BadVersion == ~ShortHeader /\ sink[5] + 256 * sink[6] # 1
\* fewer index bytes lie at index_offset than the frame_count * 16 declared
ShortIndex ==
    /\ ~ShortHeader
    /\ from_le_bytes(Slice(sink, 14, 18)) > 0
    /\ from_le_bytes(Slice(sink, 42, 50))
          + 16 * from_le_bytes(Slice(sink, 14, 18)) > Len(sink)

\* C13: RsfxReader::new returns an error and no reader when the first 4
\* bytes are not "RSFX" (the invalid-magic error, also when the version is
\* wrong too: magic is checked first), when the magic is right and the
\* version field is not 1 (the unsupported-version error), when fewer than
\* 64 bytes of header are there, and when the file ends before the
\* frame_count * 16 bytes of index the header declares at index_offset.
C13_OpenRejects ==
    pc = "open" =>
        /\ ShortHeader => ~reader.ok
        /\ BadMagic => reader = Err("invalid magic")
        /\ (~BadMagic /\ BadVersion) => reader = Err("unsupported version")
        /\ ShortIndex => ~reader.ok

\* a file with a frame whose magic and version were both overwritten was
\* opened: the error is the magic's
C13_Witness ==
    /\ pc = "open"
    /\ Len(FrameCalls) > 0
    /\ BadMagic /\ BadVersion
    /\ reader = Err("invalid magic")

\* the last call made on the reader was one of its frame accessors
FrameCall == ret.fn \in {"frame_type", "read_keyframe", "read_delta"}

\* C14: frame_type, read_keyframe and read_delta called with
\* frame_idx >= frame_count return an IndexOutOfRange error value to the
\* caller, without a crash, and the reader stays usable.
C14_OutOfRangeIsErrorValue ==
    (FrameCall /\ reader.ok /\ ret.frame_idx >= reader.val.header.frame_count) =>
        /\ pc = "open"
        /\ ret.out = Err("IndexOutOfRange")

\* C15: read_keyframe returns a CorruptFrame error whenever the frame's
\* decompressed size is not cols * rows * 6, and read_delta whenever it is
\* not a multiple of 10; neither returns a list of cells for such a frame.
C15_WrongSizeIsCorruptFrame ==
    (FrameCall /\ reader.ok /\ ret.frame_idx < Len(reader.val.index)) =>
        LET raw == read_frame_raw(reader.val, sink, ret.frame_idx)
            h == reader.val.header
        IN  /\ (ret.fn = "read_keyframe" /\ raw.ok
                    /\ Len(raw.val) # h.cols * h.rows * CELL_SIZE)
                 => ret.out = Err("CorruptFrame")
            /\ (ret.fn = "read_delta" /\ raw.ok
                    /\ Len(raw.val) % DELTA_CELL_SIZE # 0)
                 => ret.out = Err("CorruptFrame")


(***************************************************************************)
(* SpecDelta: compute_delta applied to bounded inputs, and its delta       *)
(* written back into prev.                                                 *)
(***************************************************************************)
\* all grids of n cells over two cell values
Grids(n) == [1..n -> {CellA, CellB}]

\* the grid sizes tried: every cols x rows with at most MaxCells cells
Dims == { d \in (1..MaxCells) \X (1..MaxCells) : d[1] * d[2] <= MaxCells }

SmallDeltaArgs ==
    { [fn |-> "compute_delta", cols |-> d[1], rows |-> d[2],
       prev |-> p, current |-> c, force_keyframe |-> f] :
        d \in Dims, p \in Grids(MaxCells) \cup {<< >>}, c \in Grids(MaxCells),
        f \in BOOLEAN }

\* a 10 x 10 grid of CellA, and the same grid with its first n cells CellB
Grid100(n) == [i \in 1..100 |-> IF i <= n THEN CellB ELSE CellA]

Grid100DeltaArgs ==
    { [fn |-> "compute_delta", cols |-> 10, rows |-> 10,
       prev |-> Grid100(0), current |-> Grid100(n), force_keyframe |-> f] :
        n \in 0..100, f \in BOOLEAN }

\* prev and current cut to the cols*rows cells of the grid
Cut(a) ==
    [a EXCEPT !.prev = IF @ = << >> THEN @ ELSE SubSeq(@, 1, a.cols * a.rows),
              !.current = SubSeq(@, 1, a.cols * a.rows)]

DeltaArgs == { Cut(a) : a \in SmallDeltaArgs } \cup Grid100DeltaArgs

\* no file is written, converted or played in the run
ParkedFile ==
    /\ sink = << >> /\ writer = [pos |-> 0] /\ calls = << >>
    /\ reader = NoReader
    /\ conv = NoConv /\ source = << >> /\ player = NoPlayer

ParkedContainer == ParkedFile /\ ParkedLive

InitDelta ==
    /\ arg \in DeltaArgs
    /\ ret = NoArg
    /\ pc = "check"
    /\ ParkedContainer

ComputeDelta ==
    /\ pc = "check"
    /\ ret' = [diff |-> compute_delta(arg.prev, arg.current, arg.cols,
                                      arg.force_keyframe)]
    /\ pc' = "computed"
    /\ UNCHANGED << sink, writer, calls, reader, conv, source, player, arg, stream, chan, live >>

\* the delta written into prev, as the player writes it into current_cells
ApplyDelta ==
    /\ pc = "computed"
    /\ ret.diff.type = "Delta"
    /\ ret' = [diff |-> ret.diff,
               applied |-> apply_deltas(arg.prev, ret.diff.deltas, arg.cols)]
    /\ pc' = "applied"
    /\ UNCHANGED << sink, writer, calls, reader, conv, source, player, arg, stream, chan, live >>

NextDelta == ComputeDelta \/ ApplyDelta

SpecDelta == InitDelta /\ [][NextDelta]_vars

\* the number of cells in which current differs from prev
Changed ==
    Cardinality({ i \in 1..Len(arg.current) : arg.current[i] # arg.prev[i] })

\* C4: for prev and curr of equal length cols*rows, prev non-empty, a
\* Delta(D) written cell by cell into prev at y*cols+x yields exactly curr,
\* and a Keyframe(K) has K = curr.
C4_DeltaEquivalence ==
    /\ (pc = "applied" /\ arg.prev # << >>) => ret.applied = arg.current
    /\ (pc = "computed" /\ arg.prev # << >> /\ ret.diff.type = "Keyframe")
          => ret.diff.cells = arg.current

\* a delta of two cells in different rows was written into prev
C4_Witness ==
    /\ pc = "applied"
    /\ arg.cols = 2 /\ arg.rows = 2
    /\ Len(ret.diff.deltas) = 2
    /\ ret.diff.deltas[1].y = 0 /\ ret.diff.deltas[2].y = 1
    /\ arg.prev # arg.current
    /\ ret.applied = arg.current

\* C5: with force_keyframe = false and prev non-empty a Delta is returned
\* only when the number of changed cells is <= total*60/100 (integer
\* division) and a Keyframe equal to curr when it is strictly greater; on
\* the 10x10 grid 60 changed cells give a Delta of length 60 and 61 a
\* Keyframe.
C5_PromotionThreshold ==
    (pc = "computed" /\ ~arg.force_keyframe /\ arg.prev # << >>) =>
        LET total == arg.cols * arg.rows
        IN  /\ ret.diff.type = "Delta" =>
                 /\ Changed <= (total * 60) \div 100
                 /\ Len(ret.diff.deltas) = Changed
            /\ Changed > (total * 60) \div 100 => ret.diff = Keyframe(arg.current)
            /\ (total = 100 /\ Changed = 60) =>
                 ret.diff.type = "Delta" /\ Len(ret.diff.deltas) = 60
            /\ (total = 100 /\ Changed = 61) => ret.diff = Keyframe(arg.current)

\* the 10x10 grid with 61 changed cells was promoted
C5_Witness ==
    /\ pc = "computed" /\ ~arg.force_keyframe
    /\ arg.cols = 10 /\ arg.rows = 10 /\ Changed = 61
    /\ ret.diff.type = "Keyframe"

\* C6: every DeltaCell compute_delta produces for grids of cols*rows cells
\* has x < cols and y < rows.
C6_DeltaCellsInGrid ==
    (pc = "computed" /\ ret.diff.type = "Delta") =>
        \A k \in 1..Len(ret.diff.deltas) :
            /\ ret.diff.deltas[k].x < arg.cols
            /\ ret.diff.deltas[k].y < arg.rows

\* a delta cell in the last column of one grid and the last row of another
C6_Witness ==
    /\ pc = "computed" /\ ret.diff.type = "Delta"
    /\ \E k \in 1..Len(ret.diff.deltas) :
          \/ arg.cols = 4 /\ ret.diff.deltas[k].x = 3
          \/ arg.rows = 4 /\ ret.diff.deltas[k].y = 3

\* C35: for every Delta compute_delta emits, the raw body of the delta frame,
\* 10 bytes per delta cell, is no longer than the raw body of a keyframe of
\* the same frame, 6 bytes per cell of the cols*rows grid.
C35_DeltaBodyNoLargerThanKeyframeBody ==
    (pc = "computed" /\ ret.diff.type = "Delta") =>
        /\ DELTA_CELL_SIZE * Len(ret.diff.deltas) <= CELL_SIZE * arg.cols * arg.rows
        /\ arg.cols * arg.rows <= MaxCells =>
              /\ Len(DeltasRaw(ret.diff.deltas)) = DELTA_CELL_SIZE * Len(ret.diff.deltas)
              /\ Len(CellsRaw(arg.current)) = CELL_SIZE * arg.cols * arg.rows
              /\ Len(DeltasRaw(ret.diff.deltas)) <= Len(CellsRaw(arg.current))

\* the 10x10 grid with 60 changed cells: a Delta whose raw body, 600 bytes,
\* is as long as the keyframe's
C35_Witness ==
    /\ pc = "computed" /\ ret.diff.type = "Delta"
    /\ arg.cols = 10 /\ arg.rows = 10
    /\ Len(ret.diff.deltas) = 60
    /\ DELTA_CELL_SIZE * Len(ret.diff.deltas) = CELL_SIZE * arg.cols * arg.rows

(***************************************************************************)
(* SpecHeader: RsfxHeader::to_bytes then from_bytes on bounded headers.    *)
(***************************************************************************)
\* two values per field, with distinct bytes in every position the model's
\* integers reach
HeaderValues ==
    [cols : {120, 65535}, rows : {40, 258}, fps_num : {30, 24000},
     fps_den : {1, 1001}, frame_count : {0, 16909060},
     keyframe_interval : {0, 30}, audio_sample_rate : {0, 44100},
     audio_channels : {1, 2}, audio_offset : {0, 2137342753},
     audio_length : {0, 1024}, index_offset : {64, 305419896}]

InitHeader ==
    /\ arg \in { [fn |-> "header", h |-> h] : h \in HeaderValues }
    /\ ret = NoArg
    /\ pc = "check"
    /\ ParkedContainer

HeaderToBytes ==
    /\ pc = "check"
    /\ ret' = [bytes |-> RsfxHeader_to_bytes(arg.h)]
    /\ pc' = "encoded"
    /\ UNCHANGED << sink, writer, calls, reader, conv, source, player, arg, stream, chan, live >>

HeaderFromBytes ==
    /\ pc = "encoded"
    /\ ret' = [bytes |-> ret.bytes, parsed |-> RsfxHeader_from_bytes(ret.bytes)]
    /\ pc' = "decoded"
    /\ UNCHANGED << sink, writer, calls, reader, conv, source, player, arg, stream, chan, live >>

NextHeader == HeaderToBytes \/ HeaderFromBytes

SpecHeader == InitHeader /\ [][NextHeader]_vars

\* C9: for every header h, from_bytes(h.to_bytes()) succeeds and returns a
\* header equal to h in every one of its eleven fields; to_bytes yields
\* exactly 64 bytes.
C9_HeaderRoundtrip ==
    /\ pc = "encoded" => Len(ret.bytes) = HEADER_SIZE
    /\ pc = "decoded" =>
          /\ ret.parsed.ok
          /\ \A f \in DOMAIN arg.h : ret.parsed.val[f] = arg.h[f]
          /\ DOMAIN ret.parsed.val = DOMAIN arg.h

\* a header with multi-byte values in every field went through
C9_Witness ==
    /\ pc = "decoded"
    /\ arg.h.cols = 65535 /\ arg.h.rows = 258 /\ arg.h.fps_num = 24000
    /\ arg.h.fps_den = 1001 /\ arg.h.frame_count = 16909060
    /\ arg.h.audio_sample_rate = 44100 /\ arg.h.audio_offset = 2137342753
    /\ arg.h.audio_length = 1024 /\ arg.h.index_offset = 305419896
    /\ ret.parsed = Ok(arg.h)

(***************************************************************************)
(* SpecPlay: the converter's main writes a file from source frames, and    *)
(* the player's run_playback_loop plays that file.                         *)
(***************************************************************************)
\* --cols, --rows tried
PlayDims == { << 2, 1 >>, << 1, 2 >> }

\* what extract_audio returns: None, or Some(pcm)
ExtractedAudio == { << >>, << << 0, 0, 0, 0 >> >> }

\* keys the poll at the top of the loop may deliver
Keys == { "none", "q", "Esc", "x" }

InitPlay ==
    /\ \E d \in PlayDims, k \in 0..MaxKeyframeInterval :
          /\ conv = [cols |-> d[1], rows |-> d[2], keyframe_interval |-> k,
                     prev_cells |-> << >>, frame_num |-> 0]
          /\ RsfxWriter_new(d[1], d[2], 30, k)
    /\ source = << >>
    /\ reader = NoReader
    /\ player = NoPlayer
    /\ pc = "converting"
    /\ arg = NoArg /\ ret = NoArg
    /\ ParkedLive

(***************************************************************************)
(* converter/src/main.rs: the loop over the decoder's frames.              *)
(***************************************************************************)
\* mutant: no keyframe cadence
ForceKeyframe_never(frame_num, keyframe_interval) == FALSE

\* frame_num % (cli.keyframe_interval as u32) == 0
ForceKeyframe(frame_num, keyframe_interval) ==
    frame_num % keyframe_interval = 0

\* one iteration of `for frame in decoder`, cells being the frame's grid
ConvertFrame ==
    /\ pc = "converting"
    /\ conv.frame_num < MaxSrcFrames
    /\ conv.keyframe_interval # 0
    /\ \E cells \in Grids(conv.cols * conv.rows) :
          LET force_keyframe == ForceKeyframe(conv.frame_num, conv.keyframe_interval)
              diff == compute_delta(conv.prev_cells, cells, conv.cols, force_keyframe)
          IN  /\ IF diff.type = "Keyframe"
                 THEN write_keyframe(diff.cells)
                 ELSE write_delta(diff.deltas)
              /\ conv' = [conv EXCEPT !.prev_cells = cells, !.frame_num = @ + 1]
              /\ source' = Append(source, cells)
    /\ UNCHANGED << reader, pc, player, arg, ret, stream, chan, live >>

\* with --keyframe-interval 0 the remainder panics on the first frame
ConvertPanic ==
    /\ pc = "converting"
    /\ conv.frame_num < MaxSrcFrames
    /\ conv.keyframe_interval = 0
    /\ pc' = "panicked"
    /\ UNCHANGED << sink, writer, calls, reader, conv, source, player, arg, ret, stream, chan, live >>

\* the decoder is exhausted (VideoDecoder::new bails unless there is a first
\* frame, so at least one was converted); extract_audio, and write_audio on
\* Some(pcm)
ConvertAudio ==
    /\ pc = "converting"
    /\ conv.frame_num > 0
    /\ \E a \in ExtractedAudio :
          IF a # << >> THEN write_audio(a[1], 44100, 2)
          ELSE UNCHANGED << sink, writer, calls, stream, chan, live >>
    /\ pc' = "finishing"
    /\ UNCHANGED << reader, conv, source, player, arg, ret, stream, chan, live >>

ConvertFinish ==
    /\ pc = "finishing"
    /\ finish
    /\ pc' = "finished"
    /\ UNCHANGED << reader, conv, source, player, arg, ret, stream, chan, live >>

(***************************************************************************)
(* player/src/main.rs: main opens the file, run_playback_loop plays it.    *)
(***************************************************************************)
PlayerOpen ==
    /\ pc = "finished"
    /\ reader' = RsfxReader_new(sink)
    /\ IF reader'.ok
       THEN /\ player' = [state |-> "playing", frame_idx |-> 0,
                          current_cells |-> << >>, skipped |-> {},
                          screen |-> NewTerminal(reader'.val.header.cols,
                                                 reader'.val.header.rows)]
            /\ pc' = "playing"
       ELSE /\ player' = [player EXCEPT !.state = "error"]
            /\ pc' = "done"
    /\ UNCHANGED << sink, writer, calls, conv, source, arg, ret, stream, chan, live >>

\* mutant: a late frame is dropped whatever its type
SkipLate_drops_keyframes(current_cells, r, buf, frame_idx) == Ok(current_cells)

\* the body of the skip branch: a late keyframe is still installed
SkipLate(current_cells, r, buf, frame_idx) ==
    IF frame_type(r, frame_idx) = "Keyframe"
    THEN read_keyframe(r, buf, frame_idx)
    ELSE Ok(current_cells)

\* decode and render: a keyframe replaces current_cells, a delta is applied
DecodeFrame(current_cells, r, buf, frame_idx) ==
    IF frame_type(r, frame_idx) = "Keyframe"
    THEN read_keyframe(r, buf, frame_idx)
    ELSE LET deltas == read_delta(r, buf, frame_idx)
         IN  IF ~deltas.ok THEN deltas
             ELSE Ok(apply_deltas(current_cells, deltas.val, r.header.cols))

\* the render buffer of a frame that was decoded into cells
RenderFrame(cells, r, buf, frame_idx) ==
    IF frame_type(r, frame_idx) = "Keyframe"
    THEN render_keyframe(cells, r.header.cols, r.header.rows)
    ELSE render_delta(read_delta(r, buf, frame_idx).val)

\* one iteration of `for frame_idx in 0..frame_count`; late stands for
\* frame_time + frame_duration < target_time, which the clock decides
PlayFrame ==
    /\ pc = "playing"
    /\ player.frame_idx < reader.val.header.frame_count
    /\ \E key \in Keys, late \in BOOLEAN :
          LET i == player.frame_idx
              skip == late /\ i + 1 < reader.val.header.frame_count
              cells == IF skip
                       THEN SkipLate(player.current_cells, reader.val, sink, i)
                       ELSE DecodeFrame(player.current_cells, reader.val, sink, i)
          IN  IF key \in {"q", "Esc"}
              THEN /\ player' = [player EXCEPT !.state = "quit"]
                   /\ pc' = "done"
              ELSE IF ~cells.ok
              THEN /\ player' = [player EXCEPT !.state = "error"]
                   /\ pc' = "done"
              ELSE /\ player' = [player EXCEPT
                                   !.frame_idx = i + 1,
                                   !.current_cells = cells.val,
                                   !.skipped = IF skip THEN @ \cup {i} ELSE @,
                                   !.screen = IF skip THEN @
                                              ELSE stdout_write_all(@, RenderFrame(cells.val, reader.val, sink, i))]
                   /\ pc' = pc
    /\ UNCHANGED << sink, writer, calls, reader, conv, source, arg, ret, stream, chan, live >>

\* the loop ran out of frames: Ok(())
PlayEnd ==
    /\ pc = "playing"
    /\ player.frame_idx = reader.val.header.frame_count
    /\ player' = [player EXCEPT !.state = "ended"]
    /\ pc' = "done"
    /\ UNCHANGED << sink, writer, calls, reader, conv, source, arg, ret, stream, chan, live >>

NextPlay ==
    \/ ConvertFrame \/ ConvertPanic \/ ConvertAudio \/ ConvertFinish
    \/ PlayerOpen \/ PlayFrame \/ PlayEnd

SpecPlay == InitPlay /\ [][NextPlay]_vars

(***************************************************************************)
(* Claims about conversion and playback (checked under SpecPlay).          *)
(***************************************************************************)
Playing == pc \in {"playing", "done"} /\ reader.ok /\ player.state # "idle"

\* the keyframes of the file at or before frame i (0-based)
KeyframesUpTo(i) == { j \in 0..i : frame_type(reader.val, j) = "Keyframe" }

C3_DeltaAppliedToPreviousSourceGrid ==
    [][(/\ pc = "playing"
        /\ player'.frame_idx = player.frame_idx + 1
        /\ player.frame_idx \notin player'.skipped
        /\ frame_type(reader.val, player.frame_idx) = "Delta")
       => (/\ player.current_cells = source[player.frame_idx]
           /\ player'.current_cells = source[player.frame_idx + 1])]_vars

\* C7: every frame the converter writes at an index that is a multiple of
\* keyframe_interval is a Keyframe, so frame 0 is a Keyframe and every frame
\* i has a Keyframe at some j with i - keyframe_interval < j <= i; the index
\* a reader loads from the produced file has the same types.
CadenceHolds(index, k) ==
    /\ Len(index) > 0 => index[1].frame_type = "Keyframe"
    /\ \A i \in 0..(Len(index) - 1) :
          /\ i % k = 0 => index[i + 1].frame_type = "Keyframe"
          /\ \E j \in 0..i : i - k < j /\ index[j + 1].frame_type = "Keyframe"

C7_KeyframeCadence ==
    /\ Len(writer.index) = conv.frame_num
    /\ conv.keyframe_interval = 0 => Len(writer.index) = 0
    /\ conv.keyframe_interval # 0 =>
          /\ CadenceHolds(writer.index, conv.keyframe_interval)
          /\ reader.ok => /\ CadenceHolds(reader.val.index, conv.keyframe_interval)
                          /\ Len(reader.val.index) = Len(source)

\* with keyframe_interval 2, frame 1 was written as a Delta and frame 2, one
\* changed cell away from frame 1, as a Keyframe
C7_Witness ==
    /\ reader.ok
    /\ conv.keyframe_interval = 2
    /\ Len(reader.val.index) = 3
    /\ reader.val.index[2].frame_type = "Delta"
    /\ reader.val.index[3].frame_type = "Keyframe"
    /\ ~Promoted(Len(ChangedCells(source[2], source[3], conv.cols)), Len(source[3]))


\* C32 (as claimed): after the player has written the render buffer of a
\* rendered frame, the cells shown on the terminal are current_cells,
\* whatever frames were skipped before it.
C32_ScreenShowsCurrentCells ==
    (/\ Playing
     /\ player.frame_idx > 0
     /\ player.frame_idx - 1 \notin player.skipped)
    => player.screen.cells = player.current_cells

\* the same restricted to runs that skipped no keyframe: a skipped delta is
\* neither applied nor painted, so the screen and current_cells stay equal
C32_ScreenShowsCurrentCellsUnlessKeyframeSkipped ==
    (/\ Playing
     /\ player.frame_idx > 0
     /\ player.frame_idx - 1 \notin player.skipped
     /\ \A j \in player.skipped : frame_type(reader.val, j) # "Keyframe")
    => player.screen.cells = player.current_cells

\* C33: for the file the converter loop produced from the source grids,
\* playing frames 0..i in order with no frame skipped (a keyframe replaces
\* the grid, a delta overwrites the cells it lists) leaves current_cells
\* equal to the grid of source frame i, for every i; the file has exactly
\* one frame per source frame.
C33_ReplayReconstructsSource ==
    /\ pc \in {"finished", "playing", "done"} =>
          /\ writer.frame_count = Len(source)
          /\ Len(writer.index) = Len(source)
    /\ reader.ok =>
          /\ reader.val.header.frame_count = Len(source)
          /\ Len(reader.val.index) = Len(source)
    /\ (Playing /\ player.skipped = {} /\ player.frame_idx > 0) =>
          player.current_cells = source[player.frame_idx]

\* three frames were replayed without a skip, the last two of them deltas
\* that change a cell
C33_Witness ==
    /\ Playing
    /\ player.skipped = {}
    /\ player.frame_idx = 3
    /\ frame_type(reader.val, 1) = "Delta"
    /\ frame_type(reader.val, 2) = "Delta"
    /\ source[1] # source[2]
    /\ source[2] # source[3]
    /\ player.current_cells = source[3]

(***************************************************************************)
(* rsfx-avatar/renderer/src/protocol.rs: the live wire protocol.           *)
(***************************************************************************)
Frame(width, height, timestamp_us, rgb_data) ==
    [type |-> "Frame", width |-> width, height |-> height,
     timestamp_us |-> timestamp_us, rgb_data |-> rgb_data]
Audio(pcm_data) == [type |-> "Audio", pcm_data |-> pcm_data]
Control(cmd) == [type |-> "Control", cmd |-> cmd]

\* Option<Message>
Some(m) == [some |-> TRUE, msg |-> m]
None == [some |-> FALSE]

TAG_RF == << 82, 70 >>
TAG_RA == << 82, 65 >>
TAG_RC == << 82, 67 >>

\* a call's result and the bytes it left unread in the socket
Left(res, bytes, n) == [res |-> res, rest |-> Slice(bytes, n, Len(bytes))]

\* mutant: height is taken from the first two bytes, width from the next
SocketReceiver_read_frame_hw(bytes) ==
    IF Len(bytes) < 12 THEN Left(Err("reading frame header"), bytes, Len(bytes))
    ELSE LET height == from_le_bytes(Slice(bytes, 0, 2))
             width == from_le_bytes(Slice(bytes, 2, 4))
             timestamp_us == from_le_bytes(Slice(bytes, 4, 12))
             data_len == width * height * 3
         IN  IF Len(bytes) < 12 + data_len
             THEN Left(Err("reading frame rgb data"), bytes, Len(bytes))
             ELSE Left(Ok(Some(Frame(width, height, timestamp_us,
                                     Slice(bytes, 12, 12 + data_len)))),
                       bytes, 12 + data_len)

\* read_frame on the bytes after the tag; a read_exact that meets the end of
\* the stream fails
SocketReceiver_read_frame(bytes) ==
    IF Len(bytes) < 12 THEN Left(Err("reading frame header"), bytes, Len(bytes))
    ELSE LET width == from_le_bytes(Slice(bytes, 0, 2))
             height == from_le_bytes(Slice(bytes, 2, 4))
             timestamp_us == from_le_bytes(Slice(bytes, 4, 12))
             data_len == width * height * 3
         IN  IF Len(bytes) < 12 + data_len
             THEN Left(Err("reading frame rgb data"), bytes, Len(bytes))
             ELSE Left(Ok(Some(Frame(width, height, timestamp_us,
                                     Slice(bytes, 12, 12 + data_len)))),
                       bytes, 12 + data_len)

SocketReceiver_read_audio(bytes) ==
    IF Len(bytes) < 4 THEN Left(Err("reading audio length"), bytes, Len(bytes))
    ELSE LET length == from_le_bytes(Slice(bytes, 0, 4))
         IN  IF Len(bytes) < 4 + length
             THEN Left(Err("reading audio pcm data"), bytes, Len(bytes))
             ELSE Left(Ok(Some(Audio(Slice(bytes, 4, 4 + length)))),
                       bytes, 4 + length)

SocketReceiver_read_control(bytes) ==
    IF Len(bytes) < 1 THEN Left(Err("reading control command"), bytes, Len(bytes))
    ELSE IF bytes[1] = 0 THEN Left(Ok(Some(Control("Stop"))), bytes, 1)
    ELSE IF bytes[1] = 1 THEN Left(Ok(Some(Control("Start"))), bytes, 1)
    ELSE IF bytes[1] = 2 THEN Left(Ok(Some(Control("Ready"))), bytes, 1)
    ELSE Left(Err("unknown control command"), bytes, 1)

\* recv on the unread bytes of a stream whose sender has closed it
SocketReceiver_recv(bytes) ==
    IF Len(bytes) < 2 THEN Left(Ok(None), bytes, Len(bytes))
    ELSE LET magic == Slice(bytes, 0, 2)
             body == Slice(bytes, 2, Len(bytes))
         IN  IF magic = TAG_RF THEN SocketReceiver_read_frame(body)
             ELSE IF magic = TAG_RA THEN SocketReceiver_read_audio(body)
             ELSE IF magic = TAG_RC THEN SocketReceiver_read_control(body)
             ELSE Left(Err("unknown message magic"), bytes, 2)

\* the errors recv raises by itself (the others come from the end of stream)
ProtocolErrors == { "unknown message magic", "unknown control command" }

\* recv waits for more bytes: the sender left the stream open and the bytes
\* there do not complete a message
Blocks(s) ==
    /\ s.open
    /\ LET res == SocketReceiver_recv(s.bytes).res
       IN  IF res.ok THEN ~res.val.some ELSE res.err \notin ProtocolErrors

(***************************************************************************)
(* The sender (not part of this repository's sources): the bytes of a      *)
(* message as the wire protocol lays them out, and two malformed items.    *)
(***************************************************************************)
Message_to_bytes(m) ==
    IF m.type = "Frame"
    THEN TAG_RF \o to_le_bytes(m.width, 2) \o to_le_bytes(m.height, 2)
                \o to_le_bytes(m.timestamp_us, 8) \o m.rgb_data
    ELSE IF m.type = "Audio"
    THEN TAG_RA \o to_le_bytes(Len(m.pcm_data), 4) \o m.pcm_data
    ELSE IF m.type = "Control"
    THEN TAG_RC \o << CASE m.cmd = "Stop" -> 0 [] m.cmd = "Start" -> 1
                         [] m.cmd = "Ready" -> 2 >>
    ELSE m.bytes

\* an item with the tag "RX", and an RC item with command byte 3
UnknownTag == [type |-> "Malformed", bytes |-> << 82, 88 >>]
UnknownCmd == [type |-> "Malformed", bytes |-> << 82, 67, 3 >>]

RECURSIVE Wire(_)
\* the items concatenated without gaps
Wire(items) ==
    IF items = << >> THEN << >>
    ELSE Message_to_bytes(Head(items)) \o Wire(Tail(items))

\* a 1x2 frame (one cell) and the 2x2 frame (two cells)
FrameSmall == Frame(1, 2, 7, << 10, 20, 30, 40, 50, 60 >>)
FrameWide == Frame(2, 2, 258, << 1, 2, 3, 4, 5, 6, 7, 8, 9, 10, 11, 12 >>)

LiveItems == { FrameSmall, FrameWide, Audio(<< 1, 255, 7 >>),
               Control("Stop"), Control("Start"), Control("Ready"),
               UnknownTag, UnknownCmd }

SeqsUpTo(S, n) == UNION { [1..k -> S] : k \in 0..n }

(***************************************************************************)
(* SpecRecv: recv called again and again on one connection's bytes, until  *)
(* it returns None or an error.                                            *)
(***************************************************************************)
\* what a sender may put on the wire: the items of the live renderer's runs,
\* a frame of width 0 and an empty audio chunk
RecvItems == LiveItems \cup { Frame(0, 3, 0, << >>), Audio(<< >>) }

InitRecv ==
    /\ \E items \in SeqsUpTo(RecvItems, MaxMessages), open \in BOOLEAN :
          stream = [bytes |-> Wire(items), open |-> open, sent |-> items]
    /\ chan = << >> /\ live = NoLive
    /\ ParkedFile
    /\ pc = "recv"
    /\ arg = NoArg
    /\ ret = [fn |-> "recv", out |-> << >>]

RecvNext ==
    /\ pc = "recv"
    /\ ~Blocks(stream)
    /\ LET r == SocketReceiver_recv(stream.bytes)
       IN  /\ stream' = [stream EXCEPT !.bytes = r.rest]
           /\ ret' = [ret EXCEPT !.out = Append(@, r.res)]
           /\ pc' = IF r.res.ok /\ r.res.val.some THEN "recv" ELSE "closed"
    /\ UNCHANGED << sink, writer, calls, reader, conv, source, player, arg, chan, live >>

NextRecv == RecvNext

SpecRecv == InitRecv /\ [][NextRecv]_vars

\* every item sent is a message of the protocol
WellFormed(items) == \A i \in 1..Len(items) : items[i].type # "Malformed"

\* C16: recv applied repeatedly to the gap-free concatenation of well-formed
\* RF, RA and RC messages returns exactly those messages in the order sent,
\* each with its fields unchanged, and then None at the end of the stream
\* (on a stream left open it waits after the last message).
C16_RecvDecodes ==
    (ret.fn = "recv" /\ WellFormed(stream.sent)) =>
        /\ Len(ret.out) <= Len(stream.sent) + 1
        /\ \A i \in 1..Len(ret.out) :
              ret.out[i] = IF i <= Len(stream.sent)
                           THEN Ok(Some(stream.sent[i])) ELSE Ok(None)
        /\ pc = "closed" => ~stream.open /\ Len(ret.out) = Len(stream.sent) + 1
        /\ (pc = "recv" /\ Blocks(stream)) => Len(ret.out) = Len(stream.sent)

\* Control(Ready), the 2x2 frame and Control(Stop) were sent and the stream
\* closed: recv returned the three, then None
C16_Witness ==
    /\ ret.fn = "recv"
    /\ pc = "closed"
    /\ stream.sent = << Control("Ready"), FrameWide, Control("Stop") >>
    /\ ret.out = << Ok(Some(Control("Ready"))), Ok(Some(FrameWide)),
                    Ok(Some(Control("Stop"))), Ok(None) >>

(***************************************************************************)
(* rsfx-avatar/renderer: halfblock, audio, and main.rs (the wait for       *)
(* Ready, the receiver thread, render_loop, the cleanup).                  *)
(***************************************************************************)
\* mutant: the top pixel goes to fg and the bottom one to bg
pixels_to_cells_top_is_fg(rgb, width, height) ==
    LET cols == width
        rows == height \div 2
        stride == cols * 3
    IN  [k \in 1..(cols * rows) |->
            LET row == (k - 1) \div cols
                col == (k - 1) % cols
                top_off == (row * 2) * stride + col * 3
                bot_off == (row * 2 + 1) * stride + col * 3
            IN  Cell(rgb[bot_off + 1], rgb[bot_off + 2], rgb[bot_off + 3],
                     rgb[top_off + 1], rgb[top_off + 2], rgb[top_off + 3])]

\* each cell = 2 vertical pixels: bg = top pixel, fg = bottom pixel
pixels_to_cells(rgb, width, height) ==
    LET cols == width
        rows == height \div 2
        stride == cols * 3
    IN  [k \in 1..(cols * rows) |->
            LET row == (k - 1) \div cols
                col == (k - 1) % cols
                top_off == (row * 2) * stride + col * 3
                bot_off == (row * 2 + 1) * stride + col * 3
            IN  Cell(rgb[top_off + 1], rgb[top_off + 2], rgb[top_off + 3],
                     rgb[bot_off + 1], rgb[bot_off + 2], rgb[bot_off + 3])]

\* i16::from_le_bytes
AsI16(n) == IF n >= 32768 THEN n - 65536 ELSE n

RECURSIVE Samples(_)
\* data.chunks_exact(2) as i16 samples (sample / 32768.0 is what is stored;
\* the model keeps the numerator)
Samples(data) ==
    IF Len(data) < 2 THEN << >>
    ELSE << AsI16(data[1] + 256 * data[2]) >> \o Samples(Tail(Tail(data)))

push_pcm(buffer, data) == buffer \o Samples(data)

\* mutant: any control message ends the wait
WaitsFor_any_control(msg) == msg.type = "Control"

\* the arm of the wait loop that leaves it
WaitsFor(msg) == msg = Control("Ready")

\* mutant: the receiver thread goes on after an error
ReceiverEnds_only_at_eof(res) == res.ok /\ ~res.val.some

\* the receiver thread breaks on Ok(None) and on Err(_)
ReceiverEnds(res) == ~res.ok \/ ~res.val.some

\* mutant: the channel hands out the newest message first
mpsc_send_front(queue, e) == << e >> \o queue

\* tx.send on the unbounded channel
mpsc_send(queue, e) == Append(queue, e)

\* current[i] != prev[i] past the end of prev
DeltaPanics(prev, current, force_keyframe) ==
    ~force_keyframe /\ prev # << >> /\ Len(current) > Len(prev)

Quits(key) == key \in {"q", "Ctrl-C", "Esc"}

\* render_loop returned Ok: the terminal is restored, the socket file removed
CleanExit(l, by) ==
    [l EXCEPT !.main = "exited", !.result = "Ok", !.exit_by = by,
              !.terminal = "cooked", !.socket_file = FALSE]

\* main returned the error of `?` / bail! in the wait loop
ErrExit(l, by) ==
    [l EXCEPT !.main = "exited", !.result = "Err", !.exit_by = by]

\* the main thread panicked: the hook restores the terminal
PanicExit(l) ==
    [l EXCEPT !.main = "exited", !.result = "panic", !.exit_by = "panic",
              !.terminal = "cooked"]

\* one arm of render_loop's match on rx.try_recv(), for the queued entry e
Process(l, e) ==
    LET m == e.msg
        done == [l EXCEPT !.processed = Append(@, e)]
    IN  IF m.type = "Frame"
        THEN LET cells == pixels_to_cells(m.rgb_data, m.width, m.height)
                 force == l.frame_count = 0
             IN  IF DeltaPanics(l.prev_cells, cells, force) THEN PanicExit(l)
                 ELSE [done EXCEPT
                         !.rendered = Append(@, compute_delta(l.prev_cells, cells,
                                                              m.width, force)),
                         !.prev_cells = cells,
                         !.frame_count = @ + 1]
        ELSE IF m.type = "Audio"
        THEN [done EXCEPT !.buffer = push_pcm(@, m.pcm_data)]
        ELSE IF m = Control("Stop")
        THEN CleanExit([done EXCEPT !.stops = @ + 1], "Stop")
        ELSE done

(***************************************************************************)
(* SpecLive: one connection to the live renderer.                          *)
(***************************************************************************)
LiveKeys == { "none", "q", "Ctrl-C", "Esc", "x" }

InitLive ==
    /\ \E items \in SeqsUpTo(LiveItems, MaxMessages), open \in BOOLEAN :
          stream = [bytes |-> Wire(items), open |-> open, sent |-> items]
    /\ chan = << >>
    /\ live = [main |-> "waiting", receiver |-> "not spawned",
               result |-> "none", exit_by |-> "none",
               terminal |-> "cooked", socket_file |-> TRUE,
               prev_cells |-> << >>, frame_count |-> 0, buffer |-> << >>,
               results |-> << >>, discarded |-> << >>, processed |-> << >>,
               rendered |-> << >>, stops |-> 0]
    /\ ParkedFile
    /\ pc = "live"
    /\ arg = NoArg /\ ret = NoArg

\* one turn of main's loop around receiver.recv()?
WaitReady ==
    /\ pc = "live"
    /\ live.main = "waiting"
    /\ ~Blocks(stream)
    /\ LET r == SocketReceiver_recv(stream.bytes)
           l == [live EXCEPT !.results = Append(@, r.res)]
       IN  /\ stream' = [stream EXCEPT !.bytes = r.rest]
           /\ live' =
                IF ~r.res.ok THEN ErrExit(l, "recv error")
                ELSE IF ~r.res.val.some THEN ErrExit(l, "connection closed before ready")
                ELSE IF WaitsFor(r.res.val.msg)
                THEN [l EXCEPT !.main = "poll", !.terminal = "raw",
                               !.receiver = "running"]
                ELSE [l EXCEPT
                        !.discarded = Append(@, [msg |-> r.res.val.msg,
                                                 at |-> Len(l.results)]),
                        !.stops = @ + (IF r.res.val.msg = Control("Stop")
                                       THEN 1 ELSE 0)]
    /\ UNCHANGED << sink, writer, calls, reader, pc, conv, source, player, arg, ret, chan >>

\* one turn of the receiver thread's loop
Receive ==
    /\ pc = "live"
    /\ live.receiver = "running"
    /\ live.main # "exited"
    /\ ~Blocks(stream)
    /\ LET r == SocketReceiver_recv(stream.bytes)
       IN  /\ stream' = [stream EXCEPT !.bytes = r.rest]
           /\ chan' = IF r.res.ok /\ r.res.val.some
                      THEN mpsc_send(chan, [msg |-> r.res.val.msg,
                                            at |-> Len(live.results) + 1])
                      ELSE chan
           /\ live' = [live EXCEPT
                         !.results = Append(@, r.res),
                         !.receiver = IF ReceiverEnds(r.res) THEN "ended"
                                      ELSE "running"]
    /\ UNCHANGED << sink, writer, calls, reader, pc, conv, source, player, arg, ret >>

\* render_loop: the keyboard poll at the top of a tick
PollKey ==
    /\ pc = "live"
    /\ live.main = "poll"
    /\ \E key \in LiveKeys :
          live' = IF Quits(key) THEN CleanExit(live, "key")
                  ELSE [live EXCEPT !.main = "drain"]
    /\ UNCHANGED << sink, writer, calls, reader, pc, conv, source, player, arg, ret, stream, chan >>

\* mutant: an empty channel is always reported as Empty
Disconnected_never(queue, receiver) == FALSE

\* try_recv answers Disconnected: the queue is empty and the Sender, owned
\* by the receiver thread, was dropped
Disconnected(queue, receiver) == queue = << >> /\ receiver = "ended"

\* render_loop: one rx.try_recv() of the inner loop
TryRecv ==
    /\ pc = "live"
    /\ live.main = "drain"
    /\ chan' = IF chan # << >> THEN Tail(chan) ELSE chan
    /\ live' = IF chan # << >> THEN Process(live, Head(chan))
               ELSE IF Disconnected(chan, live.receiver)
               THEN CleanExit(live, "Disconnected")
               ELSE [live EXCEPT !.main = "poll"]
    /\ UNCHANGED << sink, writer, calls, reader, pc, conv, source, player, arg, ret, stream >>

NextLive == WaitReady \/ Receive \/ PollKey \/ TryRecv

SpecLive == InitLive /\ [][NextLive]_vars

(***************************************************************************)
(* Claims about the live renderer (checked under SpecLive).                *)
(***************************************************************************)
\* the least position in the items sent that satisfies P, 0 when none does
FirstAt(P(_)) ==
    LET at == { k \in 1..Len(stream.sent) : P(stream.sent[k]) }
    IN  IF at = {} THEN 0 ELSE CHOOSE k \in at : \A j \in at : k <= j

\* the first malformed item sent, the first Control(Ready) sent
FirstMalformed == FirstAt(LAMBDA m : m.type = "Malformed")
FirstReady == FirstAt(LAMBDA m : m = Control("Ready"))

\* C17: recv returns an error and no Message when an item begins with a tag
\* other than RF, RA, RC or is an RC with a command byte other than 0, 1, 2;
\* after that error recv is not called again on the connection, and no item
\* sent after the malformed one is queued, rendered or pushed.
C17_ProtocolErrorEndsConnection ==
    (pc = "live" /\ FirstMalformed > 0) =>
        LET k == FirstMalformed
        IN  /\ Len(live.results) <= k
            /\ Len(live.results) = k =>
                  live.results[k] =
                      Err(IF stream.sent[k] = UnknownTag
                          THEN "unknown message magic"
                          ELSE "unknown control command")
            /\ \A i \in 1..Len(live.processed) : live.processed[i].at < k
            /\ \A i \in 1..Len(live.discarded) : live.discarded[i].at < k
            /\ \A i \in 1..Len(chan) : chan[i].at < k

\* Ready, a frame, an item with an unknown tag, another frame: the first
\* frame was rendered, the receiver thread ended on the error and the main
\* thread saw the disconnect
C17_Witness ==
    /\ pc = "live"
    /\ stream.sent = << Control("Ready"), FrameSmall, UnknownTag, FrameWide >>
    /\ Len(live.results) = 3
    /\ live.results[3] = Err("unknown message magic")
    /\ live.receiver = "ended"
    /\ live.exit_by = "Disconnected"
    /\ Len(live.rendered) = 1

RECURSIVE PushedBy(_)
\* the audio buffer after the Audio messages among the entries, in order
PushedBy(entries) ==
    IF entries = << >> THEN << >>
    ELSE LET before == PushedBy(SubSeq(entries, 1, Len(entries) - 1))
             last == entries[Len(entries)].msg
         IN  IF last.type = "Audio" THEN push_pcm(before, last.pcm_data)
             ELSE before

\* C18: the live renderer renders no frame and pushes no audio before it has
\* received Control(Ready): whatever arrives before the first Control(Ready)
\* is discarded in the wait loop, and what is queued, rendered or pushed
\* comes from the messages behind it.
C18_NothingBeforeReady ==
    pc = "live" =>
        /\ \A i \in 1..Len(live.processed) :
              FirstReady > 0 /\ live.processed[i].at > FirstReady
        /\ \A i \in 1..Len(chan) : FirstReady > 0 /\ chan[i].at > FirstReady
        /\ Len(live.rendered) =
              Cardinality({ i \in 1..Len(live.processed) :
                              live.processed[i].msg.type = "Frame" })
        /\ live.buffer = PushedBy(live.processed)
        /\ \A k \in 1..Len(live.results) :
              (live.results[k].ok /\ live.results[k].val.some
                  /\ (FirstReady = 0 \/ k < FirstReady))
              => \E i \in 1..Len(live.discarded) :
                    live.discarded[i] = [msg |-> stream.sent[k], at |-> k]
        /\ live.main = "waiting" =>
              live.rendered = << >> /\ live.buffer = << >>
                  /\ live.terminal = "cooked"

\* a frame and an audio chunk sent before Ready were discarded, the frame
\* sent after Ready was rendered
C18_Witness ==
    /\ pc = "live"
    /\ stream.sent = << FrameSmall, Audio(<< 1, 255, 7 >>), Control("Ready"), FrameWide >>
    /\ Len(live.discarded) = 2
    /\ live.processed = << [msg |-> FrameWide, at |-> 4] >>
    /\ Len(live.rendered) = 1
    /\ live.buffer = << >>

\* C19: whenever the live renderer has received Control(Stop), at any point
\* of the connection and whatever preceded it, it has terminated cleanly:
\* render_loop returned Ok, the terminal is restored and the socket file
\* removed.
C19_StopTerminatesCleanly ==
    (pc = "live" /\ live.stops > 0) =>
        /\ live.main = "exited"
        /\ live.result = "Ok"
        /\ live.terminal = "cooked"
        /\ ~live.socket_file

\* C20: in every interleaving of the receiver thread and the main thread,
\* the messages read from the socket after Ready are processed by the main
\* thread in their arrival order, none lost, duplicated or reordered, and
\* the messages still queued when the receiver thread ends are processed
\* before the main thread observes the disconnect.
C20_ArrivalOrder ==
    pc = "live" =>
        /\ \A i \in 1..Len(live.processed) :
              /\ live.processed[i].at = FirstReady + i
              /\ live.processed[i].msg = stream.sent[FirstReady + i]
        /\ live.exit_by # "panic" =>
              \A j \in 1..Len(chan) :
                  /\ chan[j].at = FirstReady + Len(live.processed) + j
                  /\ chan[j].msg = stream.sent[chan[j].at]
        /\ live.exit_by = "Disconnected" =>
              /\ chan = << >>
              /\ live.receiver = "ended"
              /\ Len(live.processed) =
                    Cardinality({ k \in 1..Len(live.results) :
                                    /\ k > FirstReady
                                    /\ live.results[k].ok
                                    /\ live.results[k].val.some })

\* a frame, an audio chunk and another frame sent after Ready: all three
\* processed in that order before the disconnect was seen
C20_Witness ==
    /\ pc = "live"
    /\ stream.sent = << Control("Ready"), FrameWide, Audio(<< 1, 255, 7 >>), FrameSmall >>
    /\ live.exit_by = "Disconnected"
    /\ Len(live.processed) = 3
    /\ live.processed[2].msg = Audio(<< 1, 255, 7 >>)
    /\ live.buffer = << -255 >>
    /\ Len(live.rendered) = 2

(***************************************************************************)
(* SpecAudio: the streaming audio buffer shared by the main thread         *)
(* (AudioHandle::push_pcm) and the audio device thread                     *)
(* (StreamingSource::next).  Each call takes the mutex for its whole body, *)
(* so a call is one step; the two threads' calls interleave freely.        *)
(*   live.buffer   the VecDeque behind the mutex                           *)
(*   live.pushed   every sample handed to push_pcm so far, in call order   *)
(*   live.played   what each next() returned, whether the buffer was empty *)
(*                 when it was called, and the buffer it left              *)
(***************************************************************************)
MaxPushes == 3
MaxNexts == 4

\* mutant: the newest sample is played first
StreamingSource_next_pop_back(buffer) ==
    IF buffer = << >> THEN [item |-> Some(0), buffer |-> buffer]
    ELSE [item |-> Some(buffer[Len(buffer)]),
          buffer |-> SubSeq(buffer, 1, Len(buffer) - 1)]

\* mutant: an empty buffer ends the stream
StreamingSource_next_ends_on_empty(buffer) ==
    IF buffer = << >> THEN [item |-> None, buffer |-> buffer]
    ELSE [item |-> Some(Head(buffer)), buffer |-> Tail(buffer)]

\* Iterator::next: Some(buf.pop_front().unwrap_or(0.0))
StreamingSource_next(buffer) ==
    IF buffer = << >> THEN [item |-> Some(0), buffer |-> buffer]
    ELSE [item |-> Some(Head(buffer)), buffer |-> Tail(buffer)]

\* the byte chunks handed to push_pcm: empty, one sample, two samples, a
\* zero sample and a negative one, and a chunk with a trailing odd byte
PcmChunks == { << >>, << 1, 0 >>, << 2, 0, 3, 0 >>, << 0, 0, 255, 255 >>,
               << 4, 0, 9 >> }

InitAudio ==
    /\ live = [main |-> "audio", buffer |-> << >>, pushed |-> << >>,
               played |-> << >>, pushes |-> 0]
    /\ stream = NoStream /\ chan = << >>
    /\ ParkedFile
    /\ pc = "audio"
    /\ arg = NoArg /\ ret = NoArg

\* the main thread: audio_handle.push_pcm(&data)
PushPcm ==
    /\ pc = "audio"
    /\ live.pushes < MaxPushes
    /\ \E data \in PcmChunks :
          live' = [live EXCEPT !.buffer = push_pcm(@, data),
                               !.pushed = @ \o Samples(data),
                               !.pushes = @ + 1]
    /\ UNCHANGED << sink, writer, calls, reader, pc, conv, source, player, arg, ret, stream, chan >>

\* the device thread: the mixer pulls one sample
DeviceNext ==
    /\ pc = "audio"
    /\ Len(live.played) < MaxNexts
    /\ LET r == StreamingSource_next(live.buffer)
       IN  live' = [live EXCEPT
                      !.buffer = r.buffer,
                      !.played = Append(@, [item |-> r.item,
                                            underrun |-> live.buffer = << >>,
                                            left |-> r.buffer])]
    /\ UNCHANGED << sink, writer, calls, reader, pc, conv, source, player, arg, ret, stream, chan >>

NextAudio == PushPcm \/ DeviceNext

SpecAudio == InitAudio /\ [][NextAudio]_vars

\* the samples next() returned, the silence of underruns left out
RECURSIVE Heard(_)
Heard(played) ==
    IF played = << >> THEN << >>
    ELSE (IF Head(played).underrun THEN << >> ELSE << Head(played).item.msg >>)
         \o Heard(Tail(played))

\* C21: whatever the interleaving of push_pcm and next() calls, the samples
\* returned by next(), underrun silence aside, are a prefix of the samples
\* pushed, in push order, and the samples not yet returned are exactly the
\* buffer: nothing is lost, duplicated or reordered.
C21_PlayedIsPrefixOfPushed ==
    pc = "audio" =>
        /\ \A i \in 1..Len(live.played) :
              ~live.played[i].underrun => live.played[i].item.some
        /\ live.pushed = Heard(live.played) \o live.buffer

\* two pushes with a next() between them and after them: the samples of both
\* calls came out in order, with an underrun before the first push
C21_Witness ==
    /\ pc = "audio"
    /\ live.pushed = << 2, 3, 0, -1 >>
    /\ Len(live.played) = 4
    /\ live.played[1].underrun
    /\ Heard(live.played) = << 2, 3, 0 >>
    /\ live.buffer = << -1 >>

\* C22: next() never ends the stream and never waits: every call returns
\* Some sample, a call on an empty buffer returns 0.0 and leaves the buffer
\* empty, and the call can always be made.
C22_NextNeverEnds ==
    pc = "audio" =>
        /\ \A i \in 1..Len(live.played) :
              /\ live.played[i].item.some
              /\ live.played[i].underrun =>
                    /\ live.played[i].item = Some(0)
                    /\ live.played[i].left = << >>
        /\ Len(live.played) < MaxNexts => ENABLED DeviceNext

\* an underrun, a sample, and two more underruns: the stream is still alive
C22_Witness ==
    /\ pc = "audio"
    /\ Len(live.played) = 4
    /\ live.played[1].underrun
    /\ ~live.played[2].underrun /\ live.played[2].item = Some(1)
    /\ live.played[3].underrun /\ live.played[4].underrun
    /\ live.buffer = << >>

(***************************************************************************)
(* SpecMain: the player's main from File::open to its return, on the files *)
(* a writer can finish (any calls, short keyframes included).  Each fallible*)
(* call on the terminal, the keyboard or the audio device may fail: what   *)
(* the environment answers is chosen at the step that makes the call.      *)
(*   player.state     where main is: "setup", "loop", "cleanup",           *)
(*                    "returned", "panicked"                               *)
(*   player.terminal  raw mode, alternate screen, cursor                   *)
(*   player.raw_enabled   enable_raw_mode has succeeded in this run        *)
(*   player.audio_player  "None" or "Some"; audio_new: what                *)
(*                    AudioPlayer::new answered ("not called", "Ok", "Err")*)
(*   player.visited   the frame indices the loop body ran for, in order    *)
(*   player.late      the indices found late; skipped: those skipped       *)
(*   player.rendered  the indices whose bytes were written to stdout       *)
(*   player.clocks    where each target_time was read from                 *)
(*   player.ended_by  how run_playback_loop ended; result: what it returned*)
(*   player.outcome   what main returned                                   *)
(***************************************************************************)
\* cols, rows, fps, keyframe_interval of the files played (fps 0 is what the
\* converter writes for --fps 0)
MainParams == { << 2, 1, 30, 30 >>, << 2, 1, 0, 30 >> }

Cooked == [raw |-> FALSE, alt |-> FALSE, cursor |-> "shown"]

InitMain ==
    /\ \E p \in MainParams : RsfxWriter_new(p[1], p[2], p[3], p[4])
    /\ reader = NoReader
    /\ pc = "writing"
    /\ Parked

\* mutant: a failed AudioPlayer::new aborts the playback
LoadAudio_aborts(r, buf, new_ok, load_ok) ==
    IF r.header.audio_length > 0
    THEN LET pcm == read_audio(r, buf)
         IN  IF ~pcm.ok THEN pcm
             ELSE IF ~new_ok THEN Err("failed to open audio output")
             ELSE IF load_ok THEN Ok("Some") ELSE Err("failed to decode audio")
    ELSE Ok("None")

\* main: "Load audio"; the value is audio_player, or the error returned
LoadAudio(r, buf, new_ok, load_ok) ==
    IF r.header.audio_length > 0
    THEN LET pcm == read_audio(r, buf)
         IN  IF ~pcm.ok THEN pcm
             ELSE IF new_ok
                  THEN (IF load_ok THEN Ok("Some") ELSE Err("failed to decode audio"))
                  ELSE Ok("None")
    ELSE Ok("None")

\* main returns e through `?`: nothing after the failed call runs
Returns(p, e) == [p EXCEPT !.state = "returned", !.outcome = Err(e)]

\* a panic: the hook runs cleanup_terminal, then the process dies
Panics(p) == [p EXCEPT !.state = "panicked", !.outcome = Err("panic"),
                       !.terminal = Cooked]

\* main up to the panic hook: open, header, terminal size, audio
MainOpen ==
    /\ pc = "finished"
    /\ reader' = RsfxReader_new(sink)
    /\ pc' = "main"
    /\ \E size_ok \in BOOLEAN, new_ok \in BOOLEAN, load_ok \in BOOLEAN :
          LET p == [state |-> "setup", frame_idx |-> 0, current_cells |-> << >>,
                    skipped |-> {}, late |-> {}, visited |-> << >>,
                    rendered |-> << >>, clocks |-> {},
                    terminal |-> Cooked, raw_enabled |-> FALSE,
                    audio_player |-> "None", audio_new |-> "not called",
                    ended_by |-> "none", result |-> Ok("none"),
                    outcome |-> Ok("none")]
              audio == LoadAudio(reader'.val, sink, new_ok, load_ok)
          IN  player' =
                IF ~reader'.ok THEN Returns(p, reader'.err)
                ELSE IF ~size_ok THEN Returns(p, "terminal size")
                ELSE LET q == [p EXCEPT !.audio_new =
                                  IF reader'.val.header.audio_length = 0
                                  THEN "not called"
                                  ELSE IF new_ok THEN "Ok" ELSE "Err"]
                     IN  IF ~audio.ok THEN Returns(q, audio.err)
                         ELSE [q EXCEPT !.audio_player = audio.val]
    /\ UNCHANGED << sink, writer, calls, conv, source, arg, ret, stream, chan, live >>

\* Duration::from_secs_f64(1.0 / fps) panics unless 1.0 / fps is finite
FrameDurationPanics(header) == header.fps_num = 0

\* main from enable_raw_mode to the call of run_playback_loop
MainEnter ==
    /\ pc = "main"
    /\ player.state = "setup"
    /\ \E raw_ok \in BOOLEAN, alt_ok \in BOOLEAN, splash_ok \in BOOLEAN :
          LET raw == [player EXCEPT !.terminal.raw = TRUE, !.raw_enabled = TRUE]
              alt == [raw EXCEPT !.terminal.alt = TRUE,
                                 !.terminal.cursor = "hidden"]
          IN  player' =
                IF ~raw_ok THEN Returns(player, "enable_raw_mode")
                ELSE IF ~alt_ok THEN Returns(raw, "enter alternate screen")
                ELSE IF ~splash_ok THEN Returns(alt, "show_splash")
                ELSE IF FrameDurationPanics(reader.val.header) THEN Panics(alt)
                ELSE [alt EXCEPT !.state = "loop"]
    /\ UNCHANGED << sink, writer, calls, reader, pc, conv, source, arg, ret, stream, chan, live >>

\* where target_time is read from
TargetClock(audio_player) == IF audio_player = "Some" THEN "audio" ELSE "wall"

\* mutant: a late frame is skipped even when it is the last one
Skips_last_too(late, frame_idx, frame_count) == late

\* the skip condition, late standing for
\* frame_time + frame_duration < target_time
Skips(late, frame_idx, frame_count) == late /\ frame_idx + 1 < frame_count

\* render_keyframe indexes cells[row * cols + col] for every row and col
render_keyframe_panics(cells, cols, rows) == Len(cells) < cols * rows

\* run_playback_loop returned res: main goes on to its cleanup
LoopReturns(p, by, res) ==
    [p EXCEPT !.state = "cleanup", !.ended_by = by, !.result = res]

\* one iteration of `for frame_idx in 0..frame_count`
LoopFrame ==
    /\ pc = "main"
    /\ player.state = "loop"
    /\ player.frame_idx < reader.val.header.frame_count
    /\ \E key \in Keys, late \in BOOLEAN, poll_ok \in BOOLEAN, write_ok \in BOOLEAN :
          LET i == player.frame_idx
              h == reader.val.header
              p == [player EXCEPT !.visited = Append(@, i)]
              t == [p EXCEPT !.clocks = @ \cup {TargetClock(player.audio_player)},
                             !.late = IF late THEN @ \cup {i} ELSE @]
              skip == Skips(late, i, h.frame_count)
              cells == IF skip
                       THEN SkipLate(player.current_cells, reader.val, sink, i)
                       ELSE DecodeFrame(player.current_cells, reader.val, sink, i)
          IN  player' =
                IF ~poll_ok THEN LoopReturns(p, "error", Err("event::poll"))
                ELSE IF key \in {"q", "Esc"} THEN LoopReturns(p, "key", Ok("()"))
                ELSE IF ~cells.ok THEN LoopReturns(t, "error", cells)
                ELSE IF skip
                THEN [t EXCEPT !.frame_idx = i + 1, !.current_cells = cells.val,
                               !.skipped = @ \cup {i}]
                ELSE IF /\ frame_type(reader.val, i) = "Keyframe"
                        /\ render_keyframe_panics(cells.val, h.cols, h.rows)
                THEN [Panics(t) EXCEPT !.ended_by = "panic",
                                       !.current_cells = cells.val]
                ELSE IF ~write_ok
                THEN LoopReturns([t EXCEPT !.current_cells = cells.val],
                                 "error", Err("stdout"))
                ELSE [t EXCEPT !.frame_idx = i + 1, !.current_cells = cells.val,
                               !.rendered = Append(@, i)]
    /\ UNCHANGED << sink, writer, calls, reader, pc, conv, source, arg, ret, stream, chan, live >>

\* the range is exhausted: Ok(())
LoopEnd ==
    /\ pc = "main"
    /\ player.state = "loop"
    /\ player.frame_idx = reader.val.header.frame_count
    /\ player' = LoopReturns(player, "end of frames", Ok("()"))
    /\ UNCHANGED << sink, writer, calls, reader, pc, conv, source, arg, ret, stream, chan, live >>

\* main after run_playback_loop: the restoration escapes, flush,
\* disable_raw_mode, each behind a `?`, then `result`
MainCleanup ==
    /\ pc = "main"
    /\ player.state = "cleanup"
    /\ \E out_ok \in BOOLEAN, raw_ok \in BOOLEAN :
          LET out == [player EXCEPT !.terminal.alt = FALSE,
                                    !.terminal.cursor = "shown"]
          IN  player' =
                IF ~out_ok THEN Returns(player, "stdout")
                ELSE IF ~raw_ok THEN Returns(out, "disable_raw_mode")
                ELSE [out EXCEPT !.terminal.raw = FALSE, !.state = "returned",
                                 !.outcome = player.result]
    /\ UNCHANGED << sink, writer, calls, reader, pc, conv, source, arg, ret, stream, chan, live >>

NextMain ==
    \/ FileKeyframe \/ FileDelta \/ FileAudio \/ FileFinish
    \/ MainOpen \/ MainEnter \/ LoopFrame \/ LoopEnd \/ MainCleanup

SpecMain == InitMain /\ [][NextMain]_vars

(***************************************************************************)
(* Claims about the player's main (checked under SpecMain).                *)
(***************************************************************************)
\* C23: on every return of main taken after raw mode was enabled, the
\* terminal has been restored (alternate screen left, cursor shown, raw
\* mode disabled) before the return.
C23_RestoredOnEveryReturn ==
    (pc = "main" /\ player.state = "returned" /\ player.raw_enabled)
        => player.terminal = Cooked

\* the file has audio and AudioPlayer::new failed
SilentMode ==
    /\ pc = "main"
    /\ reader.ok
    /\ reader.val.header.audio_length > 0
    /\ player.audio_new = "Err"

\* C25: when the file has audio and AudioPlayer::new fails, main does not
\* return at the audio set-up: it goes on with no audio player, every
\* target_time is read from the wall clock, and the loop visits the frames
\* (all of them, when it runs to the end of the frames).
C25_SilentVideoMode ==
    SilentMode =>
        /\ player.audio_player = "None"
        /\ player.clocks \subseteq {"wall"}
        /\ player.state = "returned" =>
              (player.raw_enabled \/ player.outcome = Err("enable_raw_mode"))
        /\ player.ended_by = "end of frames" =>
              /\ Len(player.visited) = reader.val.header.frame_count
              /\ \A i \in 0..(reader.val.header.frame_count - 1) :
                    \/ i \in player.skipped
                    \/ \E k \in 1..Len(player.rendered) : player.rendered[k] = i

\* a file with audio and two frames, no audio device: both frames were
\* rendered on the wall clock and main returned Ok
C25_Witness ==
    /\ SilentMode
    /\ player.state = "returned"
    /\ player.outcome = Ok("()")
    /\ player.rendered = << 0, 1 >>
    /\ player.clocks = {"wall"}
    /\ player.terminal = Cooked

\* C28: a frame is skipped only when it was late and is not the last one;
\* when the loop runs to the end of the frames, the last frame was decoded
\* and rendered.
C28_LastFrameNeverSkipped ==
    (pc = "main" /\ reader.ok) =>
        /\ \A i \in player.skipped :
              i \in player.late /\ i + 1 < reader.val.header.frame_count
        /\ (player.ended_by = "end of frames" /\ reader.val.header.frame_count > 0) =>
              /\ (reader.val.header.frame_count - 1) \notin player.skipped
              /\ player.rendered # << >>
              /\ player.rendered[Len(player.rendered)] =
                    reader.val.header.frame_count - 1

\* both frames were late: frame 0 was skipped, frame 1 was rendered
C28_Witness ==
    /\ pc = "main"
    /\ player.ended_by = "end of frames"
    /\ player.late = {0, 1}
    /\ player.skipped = {0}
    /\ player.rendered = << 1 >>

\* C29: the loop visits the indices 0, 1, 2, ... in order, each once, and
\* ends in one of three ways: Ok after the last frame, Ok on q or ESC, or
\* the error of a failed read, decode or write.
C29_LoopEndsInThreeWays ==
    (pc = "main" /\ reader.ok) =>
        /\ player.visited = [k \in 1..Len(player.visited) |-> k - 1]
        /\ Len(player.visited) <= reader.val.header.frame_count
        /\ player.state \in {"cleanup", "returned", "panicked"} =>
              \/ player.ended_by = "none" /\ player.visited = << >>
              \/ /\ player.ended_by = "end of frames"
                 /\ player.result = Ok("()")
                 /\ Len(player.visited) = reader.val.header.frame_count
              \/ player.ended_by = "key" /\ player.result = Ok("()")
              \/ player.ended_by = "error" /\ ~player.result.ok

\* a recv of this run returned a protocol error
ProtocolErrorSeen ==
    \E i \in 1..Len(live.results) :
        ~live.results[i].ok /\ live.results[i].err \in ProtocolErrors

\* C24: when a recv on the live connection returned a protocol error,
\* before or after Control(Ready), and the renderer's main is not ended by
\* a quit key or a Control(Stop) first, main returns an error, never Ok.
C24_ProtocolErrorIsErrorExit ==
    (/\ pc = "live"
     /\ ProtocolErrorSeen
     /\ live.main = "exited"
     /\ live.exit_by \notin {"key", "Stop", "panic"})
        => live.result = "Err"

(***************************************************************************)
(* A claim about the converter's files (checked under SpecPlay).           *)
(***************************************************************************)
\* C26: the header of every file the converter leaves on disk, finished or
\* not, has keyframe_interval >= 1.
C26_KeyframeIntervalAtLeastOne ==
    (pc \in {"panicked", "finished", "playing", "done"} /\ conv # NoConv)
        => /\ HeaderOnDisk.ok
           /\ HeaderOnDisk.val.keyframe_interval >= 1

(***************************************************************************)
(* SpecPixels: pixels_to_cells applied to RGB24 buffers of width * height  *)
(* pixels, height even (the converter hands it cols x rows*2 pixels).      *)
(***************************************************************************)
MaxWidth == 3
MaxCellRows == 2

\* buffers of n bytes: byte i (1-based) is (a * i + b) mod 256
PixelBuffers(n) ==
    { [i \in 1..n |-> (a * i + b) % 256] : a \in {0, 1, 7, 85}, b \in 0..5 }

InitPixels ==
    /\ \E width \in 1..MaxWidth, rows \in 1..MaxCellRows :
          \E rgb \in PixelBuffers(width * (2 * rows) * 3) :
              arg = [fn |-> "pixels_to_cells", rgb |-> rgb, width |-> width,
                     height |-> 2 * rows]
    /\ ret = NoArg
    /\ pc = "pixels"
    /\ ParkedContainer

PixelsToCells ==
    /\ pc = "pixels"
    /\ ret' = [fn |-> "pixels_to_cells",
               cells |-> pixels_to_cells(arg.rgb, arg.width, arg.height)]
    /\ pc' = "mapped"
    /\ UNCHANGED << sink, writer, calls, reader, conv, source, player, arg, stream, chan, live >>

NextPixels == PixelsToCells

SpecPixels == InitPixels /\ [][NextPixels]_vars

\* the pixel at column x, line y of the buffer handed in
Pixel(x, y) ==
    LET o == (y * arg.width + x) * 3
    IN  << arg.rgb[o + 1], arg.rgb[o + 2], arg.rgb[o + 3] >>

\* C27: on width * height pixels, height even, pixels_to_cells returns
\* width * (height / 2) cells in row-major order, the cell at (col, row)
\* having bg = pixel (col, 2 row) and fg = pixel (col, 2 row + 1), the
\* colour values unchanged.
C27_HalfblockMapping ==
    pc = "mapped" =>
        /\ Len(ret.cells) = arg.width * (arg.height \div 2)
        /\ \A col \in 0..(arg.width - 1), row \in 0..((arg.height \div 2) - 1) :
              LET c == ret.cells[row * arg.width + col + 1]
              IN  /\ << c.bg_r, c.bg_g, c.bg_b >> = Pixel(col, 2 * row)
                  /\ << c.fg_r, c.fg_g, c.fg_b >> = Pixel(col, 2 * row + 1)

\* the 2x2 example: bytes 1..12 give the cells (1,2,3 | 7,8,9) and
\* (4,5,6 | 10,11,12)
C27_Witness ==
    /\ pc = "mapped"
    /\ arg.width = 2 /\ arg.height = 2
    /\ arg.rgb = << 1, 2, 3, 4, 5, 6, 7, 8, 9, 10, 11, 12 >>
    /\ ret.cells = << Cell(1, 2, 3, 7, 8, 9), Cell(4, 5, 6, 10, 11, 12) >>

(***************************************************************************)
(* SpecLiveFair: the live renderer with its two threads scheduled fairly.  *)
(* The receiver thread and the main thread are OS threads: a thread that   *)
(* can take its next step (a recv whose bytes or EOF are there, the        *)
(* keyboard poll with its 1 ms timeout, a try_recv, which never blocks)    *)
(* eventually takes it.  Streams here are up to MaxFairMessages items long.*)
(***************************************************************************)
MaxFairMessages == 3

InitLiveFair ==
    /\ InitLive
    /\ Len(stream.sent) <= MaxFairMessages

SpecLiveFair ==
    /\ InitLiveFair /\ [][NextLive]_vars
    /\ WF_vars(WaitReady) /\ WF_vars(Receive)
    /\ WF_vars(PollKey) /\ WF_vars(TryRecv)

\* the messages the receiver thread took off the socket, by their ordinal
\* among the results of recv
ReceivedByThread ==
    { k \in (Len(live.discarded) + 2)..Len(live.results) :
         live.results[k].ok /\ live.results[k].val.some }

MaxDeltaCells == 2

ApplyDims == { << 2, 1 >>, << 1, 2 >>, << 2, 2 >> }

\* idx = d.y * cols + d.x; if idx < current_cells.len() { current_cells[idx] = d.cell }
apply_delta_cell(current_cells, d, cols) ==
    LET idx == d.y * cols + d.x
    IN  IF idx < Len(current_cells)
        THEN [current_cells EXCEPT ![idx + 1] = d.cell]
        ELSE current_cells

InitApply ==
    /\ \E dim \in ApplyDims :
         \E deltas \in SeqsUpTo({ DeltaCell(x, y, CellB) :
                                    x \in 0..dim[1], y \in 0..dim[2] },
                                MaxDeltaCells) :
            /\ arg = [fn |-> "apply", cols |-> dim[1], rows |-> dim[2],
                      deltas |-> deltas]
            /\ ret = [cells |-> [k \in 1..(dim[1] * dim[2]) |-> CellA],
                      applied |-> 0,
                      before |-> [k \in 1..(dim[1] * dim[2]) |-> CellA]]
    /\ pc = "apply"
    /\ ParkedContainer

\* one iteration of `for d in &deltas`
ApplyDeltaCell ==
    /\ pc = "apply"
    /\ ret.applied < Len(arg.deltas)
    /\ ret' = [cells |-> apply_delta_cell(ret.cells, arg.deltas[ret.applied + 1],
                                          arg.cols),
               applied |-> ret.applied + 1,
               before |-> ret.cells]
    /\ UNCHANGED << sink, writer, calls, reader, pc, conv, source, player, arg, stream, chan, live >>

\* the loop is over: current_cells is what the frame left
ApplyDone ==
    /\ pc = "apply"
    /\ ret.applied = Len(arg.deltas)
    /\ pc' = "applied"
    /\ UNCHANGED << sink, writer, calls, reader, conv, source, player, arg, ret, stream, chan, live >>

NextApply == ApplyDeltaCell \/ ApplyDone

SpecApply == InitApply /\ [][NextApply]_vars

\* C31: a DeltaCell with x >= cols or y >= rows changes no cell of
\* current_cells; a DeltaCell inside the grid changes the cell at index
\* y * cols + x to its cell and no other.
C31_OutOfGridIgnored ==
    (pc \in {"apply", "applied"} /\ ret.applied > 0) =>
        LET d == arg.deltas[ret.applied]
        IN  IF d.x >= arg.cols \/ d.y >= arg.rows
            THEN ret.cells = ret.before
            ELSE ret.cells = [ret.before EXCEPT ![d.y * arg.cols + d.x + 1] = d.cell]

(***************************************************************************)
(* SpecRender: render_keyframe applied to grids of up to MaxRenderCells     *)
(* cells, of every shape cols x rows.                                      *)
(***************************************************************************)
MaxRenderCells == 4

\* the spec's example cell, a cell of the colour prev_bg and prev_fg start
\* with, and a cell sharing its bg with the first and its fg with the second
CellS == Cell(10, 20, 30, 40, 50, 60)
CellW == Cell(255, 255, 255, 255, 255, 255)
CellD == Cell(10, 20, 30, 255, 255, 255)

InitRender ==
    /\ \E cols \in 1..MaxRenderCells, rows \in 1..MaxRenderCells :
          /\ cols * rows <= MaxRenderCells
          /\ \E cells \in [1..(cols * rows) -> {CellS, CellW, CellD}] :
                arg = [fn |-> "render_keyframe", cells |-> cells, cols |-> cols,
                       rows |-> rows]
    /\ ret = NoArg
    /\ pc = "render"
    /\ ParkedContainer

RenderKeyframe ==
    /\ pc = "render"
    /\ ret' = [fn |-> "render_keyframe",
               buf |-> render_keyframe(arg.cells, arg.cols, arg.rows)]
    /\ pc' = "rendered"
    /\ UNCHANGED << sink, writer, calls, reader, conv, source, player, arg, stream, chan, live >>

NextRender == RenderKeyframe

SpecRender == InitRender /\ [][NextRender]_vars

\* the positions of buf at which the byte string s begins
Starts(buf, s) ==
    { p \in 1..(Len(buf) - Len(s) + 1) : SubSeq(buf, p, p + Len(s) - 1) = s }

\* the position of the k-th glyph of buf (0 when there are fewer)
GlyphAt(buf, k) ==
    LET at == { p \in Starts(buf, HALF_BLOCK) :
                  Cardinality({ q \in Starts(buf, HALF_BLOCK) : q < p }) = k - 1 }
    IN  IF at = {} THEN 0 ELSE CHOOSE p \in at : TRUE

\* the positions of buf, after the glyph of cell k-1 and before the glyph
\* of cell k, at which s begins
Before(buf, k, s) ==
    { p \in Starts(buf, s) : GlyphAt(buf, k - 1) < p /\ p < GlyphAt(buf, k) }

\* C34: render_keyframe writes a bg SGR in front of a cell's glyph exactly
\* when the cell is the first or its bg differs from the bg of the cell
\* before it in row-major order, and that SGR carries the cell's bg;
\* likewise, independently, for fg; so a grid of equal cells has one bg SGR
\* and one fg SGR.  The buffer starts with CSI H, has CR LF in front of the
\* first cell of each row but the first and nowhere else, one glyph per
\* cell, and ends with CSI 0 m.
C34_KeyframeSuppression ==
    pc = "rendered" =>
        LET buf == ret.buf
            n == arg.cols * arg.rows
            c(k) == arg.cells[k]
            bg(k) == << c(k).bg_r, c(k).bg_g, c(k).bg_b >>
            fg(k) == << c(k).fg_r, c(k).fg_g, c(k).fg_b >>
        IN  /\ SubSeq(buf, 1, 3) = HOME
            /\ SubSeq(buf, Len(buf) - 3, Len(buf)) = RESET
            /\ Cardinality(Starts(buf, HALF_BLOCK)) = n
            /\ Cardinality(Starts(buf, CRLF)) = arg.rows - 1
            /\ \A k \in 1..n :
                  /\ Before(buf, k, CRLF) # {} <=> (k > 1 /\ ((k - 1) % arg.cols) = 0)
                  /\ Before(buf, k, BG_PREFIX) # {} <=> (k = 1 \/ bg(k) # bg(k - 1))
                  /\ Before(buf, k, FG_PREFIX) # {} <=> (k = 1 \/ fg(k) # fg(k - 1))
                  /\ Cardinality(Before(buf, k, BG_PREFIX)) <= 1
                  /\ Cardinality(Before(buf, k, FG_PREFIX)) <= 1
                  /\ \A p \in Before(buf, k, BG_PREFIX) :
                        write_bg(bg(k)[1], bg(k)[2], bg(k)[3]) =
                            SubSeq(buf, p, p + Len(write_bg(bg(k)[1], bg(k)[2], bg(k)[3])) - 1)
                  /\ \A p \in Before(buf, k, FG_PREFIX) :
                        write_fg(fg(k)[1], fg(k)[2], fg(k)[3]) =
                            SubSeq(buf, p, p + Len(write_fg(fg(k)[1], fg(k)[2], fg(k)[3])) - 1)
            /\ (\A k \in 1..n : c(k) = c(1)) =>
                  /\ Cardinality(Starts(buf, BG_PREFIX)) = 1
                  /\ Cardinality(Starts(buf, FG_PREFIX)) = 1

\* the 2x1 keyframe of two cells bg (10,20,30), fg (40,50,60): one
\* "48;2;10;20;30", one "38;2;40;50;60", two glyphs
C34_Witness ==
    /\ pc = "rendered"
    /\ arg.cols = 2 /\ arg.rows = 1
    /\ arg.cells = << CellS, CellS >>
    /\ ret.buf = HOME \o << 27, 91, 52, 56, 59, 50, 59, 49, 48, 59, 50, 48, 59, 51, 48, 109 >>
                      \o << 27, 91, 51, 56, 59, 50, 59, 52, 48, 59, 53, 48, 59, 54, 48, 109 >>
                      \o HALF_BLOCK \o HALF_BLOCK \o RESET


(***************************************************************************)
(* SpecWriteFail: a writer whose sink may fail in write_all, then finish   *)
(* and a reader opened on the bytes.                                       *)
(*   arg.failed  the failed calls so far: where the payload was to go and  *)
(*               how many of its bytes reached the sink                    *)
(*   ret         the last call: its name, what it returned, and the        *)
(*               writer as it was before the call                          *)
(***************************************************************************)
\* most write_keyframe / write_delta calls made on one writer, failed or not
MaxWriteCalls == 3

WriteFailKeyframes == { << CellA, CellB >>, << CellB, CellB >> }

WriteFailDeltas == { << DeltaCell(1, 0, CellB) >>, << >> }

\* how many bytes of the payload reach the sink before write_all fails
FailPoints(compressed) == { 0, 1, Len(compressed) - 1 }

\* mutant: the index entry is pushed before the payload is written
FailedWrite_pushes_first(w, compressed, type, n) ==
    [w EXCEPT !.pos = @ + n,
              !.index = Append(@, PushedEntry(w.pos, compressed, type)),
              !.frame_count = @ + 1]

\* self.writer.write_all(&compressed)? with write_all failing after n bytes:
\* the call returns before self.index.push
FailedWrite(w, compressed, type, n) == [w EXCEPT !.pos = @ + n]

write_keyframe_err(cells, n) ==
    LET compressed == compress(CellsRaw(cells))
    IN  /\ sink' = write_all(sink, writer.pos, SubSeq(compressed, 1, n))
        /\ writer' = FailedWrite(writer, compressed, "Keyframe", n)
        /\ calls' = calls

write_delta_err(deltas, n) ==
    LET compressed == compress(DeltasRaw(deltas))
    IN  /\ sink' = write_all(sink, writer.pos, SubSeq(compressed, 1, n))
        /\ writer' = FailedWrite(writer, compressed, "Delta", n)
        /\ calls' = calls

InitWriteFail ==
    /\ \E p \in FileParams : RsfxWriter_new(p[1], p[2], p[3], p[4])
    /\ reader = NoReader
    /\ pc = "writing"
    /\ arg = [fn |-> "none", failed |-> << >>]
    /\ ret = NoArg
    /\ conv = NoConv /\ source = << >> /\ player = NoPlayer
    /\ ParkedLive

WriteCalls == Len(calls) + Len(arg.failed)

WriteKeyframeOk ==
    /\ pc = "writing"
    /\ WriteCalls < MaxWriteCalls
    /\ \E cells \in WriteFailKeyframes : write_keyframe(cells)
    /\ ret' = [fn |-> "write_keyframe", result |-> Ok(<< >>), before |-> writer]
    /\ UNCHANGED << reader, pc, conv, source, player, arg, stream, chan, live >>

WriteDeltaOk ==
    /\ pc = "writing"
    /\ WriteCalls < MaxWriteCalls
    /\ \E deltas \in WriteFailDeltas : write_delta(deltas)
    /\ ret' = [fn |-> "write_delta", result |-> Ok(<< >>), before |-> writer]
    /\ UNCHANGED << reader, pc, conv, source, player, arg, stream, chan, live >>

WriteKeyframeErr ==
    /\ pc = "writing"
    /\ WriteCalls < MaxWriteCalls
    /\ \E cells \in WriteFailKeyframes :
          \E n \in FailPoints(compress(CellsRaw(cells))) :
             /\ write_keyframe_err(cells, n)
             /\ arg' = [arg EXCEPT !.failed = Append(@, [offset |-> writer.pos, written |-> n])]
    /\ ret' = [fn |-> "write_keyframe", result |-> Err("write failed"), before |-> writer]
    /\ UNCHANGED << reader, pc, conv, source, player, stream, chan, live >>

WriteDeltaErr ==
    /\ pc = "writing"
    /\ WriteCalls < MaxWriteCalls
    /\ \E deltas \in WriteFailDeltas :
          \E n \in FailPoints(compress(DeltasRaw(deltas))) :
             /\ write_delta_err(deltas, n)
             /\ arg' = [arg EXCEPT !.failed = Append(@, [offset |-> writer.pos, written |-> n])]
    /\ ret' = [fn |-> "write_delta", result |-> Err("write failed"), before |-> writer]
    /\ UNCHANGED << reader, pc, conv, source, player, stream, chan, live >>

WriteFinish ==
    /\ pc = "writing"
    /\ finish
    /\ pc' = "finished"
    /\ UNCHANGED << reader, conv, source, player, arg, ret, stream, chan, live >>

WriteOpen ==
    /\ pc = "finished"
    /\ reader' = RsfxReader_new(sink)
    /\ pc' = "open"
    /\ UNCHANGED << sink, writer, calls, conv, source, player, arg, ret, stream, chan, live >>

NextWriteFail ==
    \/ WriteKeyframeOk \/ WriteDeltaOk \/ WriteKeyframeErr \/ WriteDeltaErr
    \/ WriteFinish \/ WriteOpen

SpecWriteFail == InitWriteFail /\ [][NextWriteFail]_vars

\* C36: a write_keyframe or write_delta whose payload write fails returns
\* that error and leaves the writer's index and frame_count as they were;
\* the index holds one entry per call that succeeded, so the index finish
\* writes, and the frames a reader then finds, are those of the calls that
\* succeeded, in order, and never a failed one.
C36_FailedWriteNotIndexed ==
    /\ (ret.fn \in {"write_keyframe", "write_delta"} /\ pc = "writing") =>
          IF ret.result.ok
          THEN /\ Len(writer.index) = Len(ret.before.index) + 1
               /\ writer.frame_count = ret.before.frame_count + 1
          ELSE /\ ret.result = Err("write failed")
               /\ writer.index = ret.before.index
               /\ writer.frame_count = ret.before.frame_count
               /\ writer.header = ret.before.header
    /\ Len(writer.index) = Len(calls)
    /\ writer.frame_count = Len(calls)
    /\ pc = "open" =>
          /\ reader.ok
          /\ reader.val.header.frame_count = Len(calls)
          /\ reader.val.index = writer.index
          /\ \A i \in 0..(Len(calls) - 1) : ReadBack(i) = Ok(Written(i))

\* a keyframe write failed part way, a delta and a keyframe were then
\* written, and the finished file reads back as those two frames
C36_Witness ==
    /\ pc = "open"
    /\ Len(arg.failed) = 1
    /\ arg.failed[1].offset = HEADER_SIZE
    /\ arg.failed[1].written > 1
    /\ Len(calls) = 2
    /\ calls[1].op = "write_delta" /\ calls[2].op = "write_keyframe"
    /\ reader.ok
    /\ reader.val.index[1].offset = HEADER_SIZE + arg.failed[1].written
    /\ ReadBack(1) = Ok(<< CellA, CellB >>)


(***************************************************************************)
(* SpecSeek: a file is written and finished, possibly damaged on disk,     *)
(* opened, and then read by read_keyframe, read_delta and read_audio calls *)
(* in any order, the reader keeping the stream position of its source.     *)
(*   reader.val.pos  the stream position of self.reader                    *)
(*   ret             the last call, what it returned, and in ret.before    *)
(*                   the call made before it and the position it left      *)
(***************************************************************************)
\* mutant: the seek is relative to the current position
seek_from_current(pos, offset) == pos + offset

\* self.reader.seek(SeekFrom::Start(offset)): the position after the seek
seek_start(pos, offset) == offset

\* RsfxReader::new, with the position its reads leave: the end of the index
RsfxReader_new_at(buf) ==
    LET r == RsfxReader_new(buf)
    IN  IF ~r.ok THEN r
        ELSE Ok([header |-> r.val.header, index |-> r.val.index,
                 pos |-> seek_start(HEADER_SIZE, r.val.header.index_offset)
                           + Len(r.val.index) * INDEX_ENTRY_SIZE])

\* the reader as read_frame_raw sees the entry once the seek is done: the
\* payload is read from wherever the seek left the position
SoughtFrame(r, frame_idx) ==
    [r EXCEPT !.index[frame_idx + 1].offset = seek_start(r.pos, @)]

SoughtAudio(r) ==
    [r EXCEPT !.header.audio_offset = seek_start(r.pos, @)]

seek_read_keyframe(r, buf, frame_idx) ==
    IF frame_idx >= Len(r.index) THEN read_keyframe(r, buf, frame_idx)
    ELSE read_keyframe(SoughtFrame(r, frame_idx), buf, frame_idx)

seek_read_delta(r, buf, frame_idx) ==
    IF frame_idx >= Len(r.index) THEN read_delta(r, buf, frame_idx)
    ELSE read_delta(SoughtFrame(r, frame_idx), buf, frame_idx)

seek_read_audio(r, buf) == read_audio(SoughtAudio(r), buf)

\* where a seek to offset followed by read_exact of n bytes may leave the
\* position: after the bytes, or, when read_exact fails, anywhere it got to
\* (the two ends are tried)
AfterRead(r, buf, offset, n) ==
    LET p == seek_start(r.pos, offset)
    IN  IF read_exact(buf, p, n).ok THEN { p + n }
        ELSE { p, Max({ p, Len(buf) }) }

AfterFrame(r, buf, frame_idx) ==
    IF frame_idx >= Len(r.index) THEN { r.pos }
    ELSE AfterRead(r, buf, r.index[frame_idx + 1].offset,
                   r.index[frame_idx + 1].compressed_size)

AfterAudio(r, buf) ==
    IF r.header.audio_length = 0 THEN { r.pos }
    ELSE AfterRead(r, buf, r.header.audio_offset, r.header.audio_length)

SeekOpen ==
    /\ pc = "on disk"
    /\ reader' = RsfxReader_new_at(sink)
    /\ pc' = IF reader'.ok THEN "seeking" ELSE "open failed"
    /\ UNCHANGED << sink, writer, calls, conv, source, player, arg, ret, stream, chan, live >>

CallBefore == [fn |-> ret.fn, pos |-> reader.val.pos]

SeekReadKeyframe ==
    /\ pc = "seeking"
    /\ \E frame_idx \in FrameIdxs :
          LET out == seek_read_keyframe(reader.val, sink, frame_idx)
          IN  /\ ret' = [fn |-> "read_keyframe", frame_idx |-> frame_idx,
                         out |-> out, before |-> CallBefore]
              /\ \E q \in AfterFrame(reader.val, sink, frame_idx) :
                    reader' = [reader EXCEPT !.val.pos = q]
              /\ pc' = IF Panicked(out) THEN "panicked" ELSE pc
    /\ UNCHANGED << sink, writer, calls, conv, source, player, arg, stream, chan, live >>

SeekReadDelta ==
    /\ pc = "seeking"
    /\ \E frame_idx \in FrameIdxs :
          LET out == seek_read_delta(reader.val, sink, frame_idx)
          IN  /\ ret' = [fn |-> "read_delta", frame_idx |-> frame_idx,
                         out |-> out, before |-> CallBefore]
              /\ \E q \in AfterFrame(reader.val, sink, frame_idx) :
                    reader' = [reader EXCEPT !.val.pos = q]
              /\ pc' = IF Panicked(out) THEN "panicked" ELSE pc
    /\ UNCHANGED << sink, writer, calls, conv, source, player, arg, stream, chan, live >>

SeekReadAudio ==
    /\ pc = "seeking"
    /\ ret' = [fn |-> "read_audio", frame_idx |-> 0,
               out |-> seek_read_audio(reader.val, sink), before |-> CallBefore]
    /\ \E q \in AfterAudio(reader.val, sink) :
          reader' = [reader EXCEPT !.val.pos = q]
    /\ UNCHANGED << sink, writer, calls, pc, conv, source, player, arg, stream, chan, live >>

NextSeek ==
    \/ FileKeyframe \/ FileDelta \/ FileAudio \/ FileFinish \/ FileDamage
    \/ SeekOpen \/ SeekReadKeyframe \/ SeekReadDelta \/ SeekReadAudio

SpecSeek == InitFile /\ [][NextSeek]_vars

\* what the call recorded in ret returns on a reader opened afresh on the
\* bytes of the file
OnFreshReader ==
    LET fresh == RsfxReader_new_at(sink).val
    IN  IF ret.fn = "read_keyframe" THEN seek_read_keyframe(fresh, sink, ret.frame_idx)
        ELSE IF ret.fn = "read_delta" THEN seek_read_delta(fresh, sink, ret.frame_idx)
        ELSE seek_read_audio(fresh, sink)

\* what the call recorded in ret finds at the absolute offset the index (or
\* the header) gives
AtAbsoluteOffset ==
    IF ret.fn = "read_keyframe" THEN read_keyframe(reader.val, sink, ret.frame_idx)
    ELSE IF ret.fn = "read_delta" THEN read_delta(reader.val, sink, ret.frame_idx)
    ELSE read_audio(reader.val, sink)

SeekCall == ret.fn \in {"read_keyframe", "read_delta", "read_audio"}

\* C37: the reader's calls change neither the file nor the header nor the
\* cached index, and what read_keyframe(i), read_delta(i) or read_audio()
\* returns is what it returns on a reader opened afresh, whatever calls were
\* made before it and wherever they left the stream position: the frame or
\* the audio found at its absolute offset in the file.
C37_ReadsAreRandomAccess ==
    /\ [](SeekCall => ret.out = OnFreshReader /\ ret.out = AtAbsoluteOffset)
    /\ [][pc = "seeking" =>
            /\ sink' = sink
            /\ reader'.val.header = reader.val.header
            /\ reader'.val.index = reader.val.index]_vars

\* read_keyframe(0) returned the first frame's grid right after a
\* read_audio that had left the position beyond that frame
C37_Witness ==
    /\ pc = "seeking"
    /\ ret.fn = "read_keyframe" /\ ret.frame_idx = 0
    /\ ret.out = Ok(<< CellA, CellB >>)
    /\ ret.before.fn = "read_audio"
    /\ reader.val.header.audio_length > 0
    /\ ret.before.pos > reader.val.index[1].offset + reader.val.index[1].compressed_size
    /\ reader.val.pos = reader.val.index[1].offset + reader.val.index[1].compressed_size

=============================================================================
